---- MODULE Spec2Model ----
(***************************************************************************)
(* A model of reaclib-rs (src/src/lib.rs, src/src/error.rs): the streaming *)
(* iterator Iter over a line source, in its two dialects (Format::Reaclib1 *)
(* and Format::Reaclib2), the chapter decoder, the fixed-column record     *)
(* decoder Set::from_lines and the primitive decoders it uses.             *)
(*                                                                         *)
(* Text is modelled as the code sees it: a line is a sequence of bytes,    *)
(* each byte a one-character string; the two bytes of a two-byte UTF-8     *)
(* character are the tokens "MB1" (lead byte) and "MB2" (continuation      *)
(* byte), and those of a two-byte whitespace character (U+00A0) are "WS1"  *)
(* and "WS2".  Column ranges are the byte ranges of the source.            *)
(*                                                                         *)
(* Values:                                                                 *)
(*   Result<T, RError>   <<"Ok", v>>  or  <<"Err", kind, argument>>        *)
(*   Option<T>           <<>> (None)  or  <<v>> (Some(v))                  *)
(*   f64                 <<"f64", m, e>>: the decimal m * 10^e the text    *)
(*                       denotes (m not divisible by 10, or <<"f64",0,0>>),*)
(*                       <<"inf", sign, 0>> or <<"nan", 0, 0>>; the        *)
(*                       rounding to the nearest double is not modelled,   *)
(*                       it is a function of this value.                   *)
(***************************************************************************)
EXTENDS Integers, Sequences, FiniteSets, TLC

(***************************************************************************)
(* Text helpers (std: str::len, str::get, str::trim, str::is_empty)        *)
(***************************************************************************)

Spaces(n) == [i \in 1..n |-> " "]

RJust(s, w) == Spaces(w - Len(s)) \o s

Take(s, n) == SubSeq(s, 1, n)

\* Unicode White_Space characters of the model's alphabet (str::trim works on
\* characters: the two bytes of U+00A0 go together, a slice never splits them).
IsWhitespace(b) == b \in {" ", "\t", "WS1", "WS2"}

\* str::is_char_boundary(i) for a byte offset i (0-based, as in the source).
is_char_boundary(s, i) ==
    \/ i = 0
    \/ i = Len(s)
    \/ i < Len(s) /\ s[i + 1] \notin {"MB2", "WS2"}

\* str_get without the check of the character boundaries.
str_get_Bytes(s, start, end) ==
    IF start <= end /\ end <= Len(s)
    THEN <<SubSeq(s, start + 1, end)>>
    ELSE <<>>

\* str::get(start..end): the bytes start..end, or None when the range is out
\* of bounds or does not lie on character boundaries.
str_get(s, start, end) ==
    IF start <= end /\ end <= Len(s)
       /\ is_char_boundary(s, start) /\ is_char_boundary(s, end)
    THEN <<SubSeq(s, start + 1, end)>>
    ELSE <<>>

\* The index of the first byte at or after i that is not whitespace
\* (Len(s) + 1 when there is none), and of the last one at or before i (0).
RECURSIVE SkipWhitespace(_, _)
SkipWhitespace(s, i) ==
    IF i <= Len(s) /\ IsWhitespace(s[i]) THEN SkipWhitespace(s, i + 1) ELSE i

RECURSIVE SkipWhitespaceBack(_, _)
SkipWhitespaceBack(s, i) ==
    IF i >= 1 /\ IsWhitespace(s[i]) THEN SkipWhitespaceBack(s, i - 1) ELSE i

\* str::trim: leading and trailing whitespace removed.
trim(s) == SubSeq(s, SkipWhitespace(s, 1), SkipWhitespaceBack(s, Len(s)))

is_empty(s) == Len(s) = 0

(***************************************************************************)
(* Primitive decoders (std: u8::from_str, f64::from_str)                   *)
(***************************************************************************)

Digits == {"0", "1", "2", "3", "4", "5", "6", "7", "8", "9"}

DigitVal(c) ==
    CASE c = "0" -> 0 [] c = "1" -> 1 [] c = "2" -> 2 [] c = "3" -> 3
      [] c = "4" -> 4 [] c = "5" -> 5 [] c = "6" -> 6 [] c = "7" -> 7
      [] c = "8" -> 8 [] c = "9" -> 9

\* The number of leading decimal digits of s.
RECURSIVE DigitRun(_)
DigitRun(s) ==
    IF s # <<>> /\ s[1] \in Digits THEN 1 + DigitRun(Tail(s)) ELSE 0

\* The value of a sequence of decimal digits, saturating at cap + 1.
RECURSIVE DigitsValue(_, _, _)
DigitsValue(s, acc, cap) ==
    IF s = <<>> THEN acc
    ELSE LET v == acc * 10 + DigitVal(s[1])
         IN  IF v > cap THEN cap + 1 ELSE DigitsValue(Tail(s), v, cap)

\* parse_u8 with the value wrapping around at 256 instead of overflowing.
parse_u8_Wrapping(s) ==
    IF s = <<>> THEN <<"Err", "ParseInt", "Empty">>
    ELSE IF s = <<"+">> \/ s = <<"-">> THEN <<"Err", "ParseInt", "InvalidDigit">>
    ELSE LET digits == IF s[1] = "+" THEN Tail(s) ELSE s
         IN  IF DigitRun(digits) # Len(digits)
             THEN <<"Err", "ParseInt", "InvalidDigit">>
             ELSE <<"Ok", DigitsValue(digits, 0, 1000000) % 256>>

\* str::parse::<u8>: an optional "+", then decimal digits, the value at most
\* 255.  A "-" is an invalid digit for an unsigned type.
parse_u8(s) ==
    IF s = <<>> THEN <<"Err", "ParseInt", "Empty">>
    ELSE IF s = <<"+">> \/ s = <<"-">> THEN <<"Err", "ParseInt", "InvalidDigit">>
    ELSE LET digits == IF s[1] = "+" THEN Tail(s) ELSE s
         IN  IF DigitRun(digits) # Len(digits)
             THEN <<"Err", "ParseInt", "InvalidDigit">>
             ELSE LET v == DigitsValue(digits, 0, 255)
                  IN  IF v > 255 THEN <<"Err", "ParseInt", "PosOverflow">>
                      ELSE <<"Ok", v>>

\* m * 10^e with the factors of ten moved from m into e.
RECURSIVE Normalize(_, _)
Normalize(m, e) ==
    IF m = 0 THEN <<"f64", 0, 0>>
    ELSE IF m % 10 = 0 THEN Normalize(m \div 10, e + 1)
    ELSE <<"f64", m, e>>

\* The decimal value of mantissa digits int.frac with exponent ex.
FloatValue(int, frac, ex, neg) ==
    <<"Ok", Normalize(IF neg THEN 0 - DigitsValue(int \o frac, 0, 999999999)
                             ELSE DigitsValue(int \o frac, 0, 999999999),
                      ex - Len(frac))>>

\* The digits of the exponent: at least one, and nothing after them.
FloatExpDigits(int, frac, d, eneg, neg) ==
    IF d = <<>> \/ DigitRun(d) # Len(d) THEN <<"Err", "ParseFloat", "Invalid">>
    ELSE FloatValue(int, frac,
                    IF eneg THEN 0 - DigitsValue(d, 0, 999) ELSE DigitsValue(d, 0, 999),
                    neg)

\* After the mantissa: the end of the text, or an exponent e[sign]digits.
FloatExponent(int, frac, rest, neg) ==
    IF Len(int) + Len(frac) = 0 THEN <<"Err", "ParseFloat", "Invalid">>
    ELSE IF rest = <<>> THEN FloatValue(int, frac, 0, neg)
    ELSE IF rest[1] \notin {"e", "E"} THEN <<"Err", "ParseFloat", "Invalid">>
    ELSE IF Len(rest) > 1 /\ rest[2] \in {"+", "-"}
         THEN FloatExpDigits(int, frac, SubSeq(rest, 3, Len(rest)), rest[2] = "-", neg)
         ELSE FloatExpDigits(int, frac, Tail(rest), FALSE, neg)

\* After the integer digits: an optional point and fraction digits.
FloatFraction(int, rest, neg) ==
    IF rest # <<>> /\ rest[1] = "."
    THEN FloatExponent(int, Take(Tail(rest), DigitRun(Tail(rest))),
                       SubSeq(rest, DigitRun(Tail(rest)) + 2, Len(rest)), neg)
    ELSE FloatExponent(int, <<>>, rest, neg)

\* After the sign: inf, infinity, nan, or a number.
FloatUnsigned(body, neg) ==
    IF body \in {<<"i", "n", "f">>, <<"i", "n", "f", "i", "n", "i", "t", "y">>}
    THEN <<"Ok", <<"inf", IF neg THEN 0 - 1 ELSE 1, 0>>>>
    ELSE IF body = <<"n", "a", "n">> THEN <<"Ok", <<"nan", 0, 0>>>>
    ELSE FloatFraction(Take(body, DigitRun(body)),
                       SubSeq(body, DigitRun(body) + 1, Len(body)), neg)

\* str::parse::<f64>: [sign] (inf | infinity | nan | number), where number is
\* digits with an optional point and an optional exponent e[sign]digits, at
\* least one digit in the mantissa and in the exponent.
parse_f64(s) ==
    IF s = <<>> THEN <<"Err", "ParseFloat", "Empty">>
    ELSE IF s[1] \in {"+", "-"} THEN FloatUnsigned(Tail(s), s[1] = "-")
    ELSE FloatUnsigned(s, FALSE)

(***************************************************************************)
(* Resonance (lib.rs 246-265)                                              *)
(***************************************************************************)

\* impl FromStr for Resonance
\* Resonance_from_str accepting the codes in upper case as well.
Resonance_from_str_AnyCase(s) ==
    CASE s = <<>> \/ s = <<" ">> \/ s = <<"n">> \/ s = <<"N">> -> <<"Ok", "NonResonant">>
      [] s = <<"r">> \/ s = <<"R">> -> <<"Ok", "Resonant">>
      [] s = <<"w">> \/ s = <<"W">> -> <<"Ok", "Weak">>
      [] s = <<"s">> \/ s = <<"S">> -> <<"Ok", "S">>
      [] OTHER -> <<"Err", "UnknownResonance", s>>

Resonance_from_str(s) ==
    CASE s = <<>> \/ s = <<" ">> \/ s = <<"n">> -> <<"Ok", "NonResonant">>
      [] s = <<"r">> -> <<"Ok", "Resonant">>
      [] s = <<"w">> -> <<"Ok", "Weak">>
      [] s = <<"s">> -> <<"Ok", "S">>
      [] OTHER -> <<"Err", "UnknownResonance", s>>

(***************************************************************************)
(* Chapter (lib.rs 290-396)                                                *)
(***************************************************************************)

Chapters ==
    {"Chapter1", "Chapter2", "Chapter3", "Chapter4", "Chapter5", "Chapter6",
     "Chapter7", "Chapter8", "Chapter9", "Chapter10", "Chapter11"}

\* num_reactants with the count of Chapter8 mistyped.
num_reactants_Typo(c) ==
    CASE c = "Chapter1" -> 1
      [] c = "Chapter2" -> 1
      [] c = "Chapter3" -> 1
      [] c = "Chapter4" -> 2
      [] c = "Chapter5" -> 2
      [] c = "Chapter6" -> 2
      [] c = "Chapter7" -> 2
      [] c = "Chapter8" -> 2
      [] c = "Chapter9" -> 3
      [] c = "Chapter10" -> 4
      [] c = "Chapter11" -> 1

num_reactants(c) ==
    CASE c = "Chapter1" -> 1
      [] c = "Chapter2" -> 1
      [] c = "Chapter3" -> 1
      [] c = "Chapter4" -> 2
      [] c = "Chapter5" -> 2
      [] c = "Chapter6" -> 2
      [] c = "Chapter7" -> 2
      [] c = "Chapter8" -> 3
      [] c = "Chapter9" -> 3
      [] c = "Chapter10" -> 4
      [] c = "Chapter11" -> 1

\* num_products with the count of Chapter10 taken from the next arm.
num_products_Shifted(c) ==
    CASE c = "Chapter1" -> 1
      [] c = "Chapter2" -> 2
      [] c = "Chapter3" -> 3
      [] c = "Chapter4" -> 1
      [] c = "Chapter5" -> 2
      [] c = "Chapter6" -> 3
      [] c = "Chapter7" -> 4
      [] c = "Chapter8" -> 1
      [] c = "Chapter9" -> 2
      [] c = "Chapter10" -> 4
      [] c = "Chapter11" -> 4

num_products(c) ==
    CASE c = "Chapter1" -> 1
      [] c = "Chapter2" -> 2
      [] c = "Chapter3" -> 3
      [] c = "Chapter4" -> 1
      [] c = "Chapter5" -> 2
      [] c = "Chapter6" -> 3
      [] c = "Chapter7" -> 4
      [] c = "Chapter8" -> 1
      [] c = "Chapter9" -> 2
      [] c = "Chapter10" -> 2
      [] c = "Chapter11" -> 4

\* Chapter_try_from with codes above 11 taken for the last chapter.
Chapter_try_from_Clamped(x) ==
    CASE x = 1 -> <<"Ok", "Chapter1">>
      [] x = 2 -> <<"Ok", "Chapter2">>
      [] x = 3 -> <<"Ok", "Chapter3">>
      [] x = 4 -> <<"Ok", "Chapter4">>
      [] x = 5 -> <<"Ok", "Chapter5">>
      [] x = 6 -> <<"Ok", "Chapter6">>
      [] x = 7 -> <<"Ok", "Chapter7">>
      [] x = 8 -> <<"Ok", "Chapter8">>
      [] x = 9 -> <<"Ok", "Chapter9">>
      [] x = 10 -> <<"Ok", "Chapter10">>
      [] x >= 11 -> <<"Ok", "Chapter11">>
      [] OTHER -> <<"Err", "UnknownChapter", x>>

\* impl TryFrom<u8> for Chapter
Chapter_try_from(x) ==
    CASE x = 1 -> <<"Ok", "Chapter1">>
      [] x = 2 -> <<"Ok", "Chapter2">>
      [] x = 3 -> <<"Ok", "Chapter3">>
      [] x = 4 -> <<"Ok", "Chapter4">>
      [] x = 5 -> <<"Ok", "Chapter5">>
      [] x = 6 -> <<"Ok", "Chapter6">>
      [] x = 7 -> <<"Ok", "Chapter7">>
      [] x = 8 -> <<"Ok", "Chapter8">>
      [] x = 9 -> <<"Ok", "Chapter9">>
      [] x = 10 -> <<"Ok", "Chapter10">>
      [] x = 11 -> <<"Ok", "Chapter11">>
      [] OTHER -> <<"Err", "UnknownChapter", x>>

\* from_lines_v1 that takes every group for a header, whatever lines 2 and 3.
from_lines_v1_LooseHeader(lines) ==
    LET c == parse_u8(trim(lines[1]))
    IN  IF c[1] = "Ok" THEN <<Chapter_try_from(c[2])>> ELSE <<c>>

\* Chapter::from_lines_v1: None (<<>>) when the group is not a chapter header,
\* Some(result) when it is: lines 2 and 3 are whitespace-only.
from_lines_v1(lines) ==
    IF is_empty(trim(lines[2])) /\ is_empty(trim(lines[3]))
    THEN LET c == parse_u8(trim(lines[1]))
         IN  IF c[1] = "Ok" THEN <<Chapter_try_from(c[2])>> ELSE <<c>>
    ELSE <<>>

\* Chapter::from_lines_v2
from_lines_v2(line) ==
    LET c == parse_u8(trim(line))
    IN  IF c[1] = "Ok" THEN Chapter_try_from(c[2]) ELSE c

(***************************************************************************)
(* Set::from_lines (lib.rs 121-169)                                        *)
(***************************************************************************)

\* range_err: the trimmed text of bytes start..end of the line.
\* range_err refusing a line that ends exactly where the field ends.
range_err_OffByOne(line, start, end) ==
    IF Len(line) <= end THEN <<"Err", "TooShortLine", <<>>>>
    ELSE LET g == str_get(line, start, end)
         IN  IF g = <<>> THEN <<"Err", "StrIndex", <<>>>>
             ELSE <<"Ok", trim(g[1])>>

range_err(line, start, end) ==
    IF Len(line) < end THEN <<"Err", "TooShortLine", <<>>>>
    ELSE LET g == str_get(line, start, end)
         IN  IF g = <<>> THEN <<"Err", "StrIndex", <<>>>>
             ELSE <<"Ok", trim(g[1])>>


\* NuclideField with the columns counted from the start of the line.
NuclideField_FromZero(line, i) == range_err(line, 5 * i, 5 * (i + 1))

\* The nuclide in 5-byte column i of data line 0 (Nuclide::from never fails:
\* the range holds 5 bytes and the capacity is 5).
NuclideField(line, i) == range_err(line, 5 + 5 * i, 5 + 5 * (i + 1))

ResonanceField(line) ==
    LET r == range_err(line, 47, 48)
    IN  IF r[1] = "Ok" THEN Resonance_from_str(r[2]) ELSE r

\* ReverseField with every flag other than blank taken for "v".
ReverseField_AnyFlag(line) ==
    LET r == range_err(line, 48, 49)
    IN  IF r[1] = "Ok" THEN <<"Ok", r[2] # <<>>>> ELSE r

ReverseField(line) ==
    LET r == range_err(line, 48, 49)
    IN  IF r[1] = "Ok" THEN <<"Ok", r[2] = <<"v">>>> ELSE r

FloatField(line, start, end) ==
    LET r == range_err(line, start, end)
    IN  IF r[1] = "Ok" THEN parse_f64(r[2]) ELSE r

\* The fields of a record in the order the code evaluates them; a `?` returns
\* the first error in this order.
SetFields(chapter, lines) ==
    LET nr == num_reactants(chapter)
        np == num_products(chapter)
    IN  [i \in 1..nr |-> NuclideField(lines[1], i - 1)]
        \o [i \in 1..np |-> NuclideField(lines[1], nr + i - 1)]
        \o << range_err(lines[1], 43, 47),
              ResonanceField(lines[1]),
              ReverseField(lines[1]),
              FloatField(lines[1], 52, 64),
              FloatField(lines[2], 0, 13),
              FloatField(lines[2], 13, 26),
              FloatField(lines[2], 26, 39),
              FloatField(lines[2], 39, 52),
              FloatField(lines[3], 0, 13),
              FloatField(lines[3], 13, 26),
              FloatField(lines[3], 26, 39) >>

\* SetOf returning the error of the last faulty field instead of the first.
SetOf_LastError(nr, np, f) ==
    IF \E i \in 1..Len(f) : f[i][1] = "Err"
    THEN f[CHOOSE i \in 1..Len(f) :
               f[i][1] = "Err" /\ \A j \in (i + 1)..Len(f) : f[j][1] # "Err"]
    ELSE <<"Ok", [reactants |-> [i \in 1..nr |-> f[i][2]],
                  products  |-> [i \in 1..np |-> f[nr + i][2]],
                  label     |-> f[nr + np + 1][2],
                  resonance |-> f[nr + np + 2][2],
                  reverse   |-> f[nr + np + 3][2],
                  q_value   |-> f[nr + np + 4][2],
                  params    |-> [i \in 1..7 |-> f[nr + np + 4 + i][2]]]>>

\* Ok(Self { .. }) from the fields, or the first error among them.
SetOf(nr, np, f) ==
    IF \E i \in 1..Len(f) : f[i][1] = "Err"
    THEN f[CHOOSE i \in 1..Len(f) :
               f[i][1] = "Err" /\ \A j \in 1..(i - 1) : f[j][1] # "Err"]
    ELSE <<"Ok", [reactants |-> [i \in 1..nr |-> f[i][2]],
                  products  |-> [i \in 1..np |-> f[nr + i][2]],
                  label     |-> f[nr + np + 1][2],
                  resonance |-> f[nr + np + 2][2],
                  reverse   |-> f[nr + np + 3][2],
                  q_value   |-> f[nr + np + 4][2],
                  params    |-> [i \in 1..7 |-> f[nr + np + 4 + i][2]]]>>

\* Set_from_lines with the two counts of the chapter exchanged.
Set_from_lines_Swapped(chapter, lines) ==
    SetOf(num_products(chapter), num_reactants(chapter), SetFields(chapter, lines))

Set_from_lines(chapter, lines) ==
    SetOf(num_reactants(chapter), num_products(chapter), SetFields(chapter, lines))

(***************************************************************************)
(* The lines of the inputs.  A line of the input is named by an id; Text   *)
(* gives the bytes of a text line and IoErrorKind the error kind of a line *)
(* whose read fails (invalid UTF-8 is io::ErrorKind::InvalidData).         *)
(***************************************************************************)

RPad(s, w) == s \o Spaces(w - Len(s))

\* Data line 0 of a record: two nuclides, label, resonance, reverse flag and
\* Q-value in their columns, padded to 74 bytes.
DataLine0(n1, n2, label, res, rev, q) ==
    Spaces(5) \o RJust(n1, 5) \o RJust(n2, 5) \o Spaces(28)
    \o label \o res \o rev \o Spaces(3) \o RJust(q, 12) \o Spaces(10)

QText == <<"7", ".", "8", "2", "3", "0", "0", "e", "-", "0", "1">>

P0Text == <<"-", "6", ".", "7", "8", "1", "6", "1", "0", "e", "+", "0", "0">>

PzText == <<"0", ".", "0", "0", "0", "0", "0", "0", "e", "+", "0", "0">>

LabelText == <<"w", "c", "1", "2">>

\* "         n    p                            wc12w     7.82300e-01          "
d0 == DataLine0(<<"n">>, <<"p">>, LabelText, <<"w">>, <<" ">>, QText)

\* "-6.781610e+00 0.000000e+00 0.000000e+00 0.000000e+00                      "
d1 == RPad(P0Text \o RJust(PzText, 13) \o RJust(PzText, 13) \o RJust(PzText, 13), 74)

\* " 0.000000e+00 0.000000e+00 0.000000e+00                                   "
d2 == RPad(RJust(PzText, 13) \o RJust(PzText, 13) \o RJust(PzText, 13), 74)

TextIds ==
    {"blank", "blank20", "blankt", "empty", "h1", "h2", "h3", "h4", "h5", "h6", "h7", "h8", "h9", "h10",
     "h11", "h12", "h300", "hx",
     "d0", "d0r", "d0s", "d0m", "d0n", "d0x", "d1", "d2", "d2f"}

ErrorIds == {"eInvalidData", "eIsADirectory"}

Text(id) ==
    CASE id = "blank" -> Spaces(74)
      [] id = "blank20" -> Spaces(20)
      [] id = "blankt" -> <<" ", "\t", " ">>
      [] id = "empty" -> <<>>
      [] id = "h1"  -> RPad(<<"1">>, 74)
      [] id = "h2"  -> <<"2">>
      [] id = "h3"  -> RPad(<<"3">>, 74)
      [] id = "h4"  -> <<"4", " ">>
      [] id = "h5"  -> <<"5">>
      [] id = "h6"  -> RPad(<<" ", "6">>, 74)
      [] id = "h7"  -> <<" ", "7", " ">>
      [] id = "h8"  -> <<"8">>
      [] id = "h9"  -> <<"0", "9">>
      [] id = "h10" -> RPad(<<"1", "0">>, 74)
      [] id = "h11" -> <<"1", "1">>
      [] id = "h12" -> RPad(<<"1", "2">>, 74)
      [] id = "h300" -> <<"3", "0", "0">>
      [] id = "hx"  -> RPad(<<"x">>, 74)
      [] id = "d0"  -> d0
         \* an unknown resonance code in column 47
      [] id = "d0r" -> [d0 EXCEPT ![48] = "q"]
         \* cut inside the Q-value field
      [] id = "d0s" -> Take(d0, 60)
         \* a two-byte character in columns 46..48, across the end of the label
      [] id = "d0m" -> [d0 EXCEPT ![47] = "MB1", ![48] = "MB2"]
         \* the same reaction with another resonance flag
      [] id = "d0n" -> [d0 EXCEPT ![48] = "n"]
         \* another reaction: reactant d instead of n
      [] id = "d0x" -> [d0 EXCEPT ![10] = "d"]
      [] id = "d1"  -> d1
         \* the padding after the last field left off
      [] id = "d2"  -> Take(d2, 39)
         \* an unparsable params[5]
      [] id = "d2f" -> [d2 EXCEPT ![20] = "x"]

IoErrorKind(id) ==
    CASE id = "eInvalidData" -> "InvalidData"
      [] id = "eIsADirectory" -> "IsADirectory"

\* What Lines::next returns for a line of the input: Ok(text) or Err(error).
LineResult(id) ==
    IF id \in ErrorIds THEN <<"Err", IoErrorKind(id)>> ELSE <<"Ok", Text(id)>>

(***************************************************************************)
(* The inputs: concatenations of at most MaxChunks fragments.  The         *)
(* fragments are whole groups of the dialect (headers, records, faulty     *)
(* records) and single lines, which cut a group short or shift the groups  *)
(* that follow.                                                            *)
(***************************************************************************)

MaxChunks == 3

MaxEndPulls == 2

DataGroups ==
    { <<"d0", "d1", "d2">>,  <<"d0r", "d1", "d2">>, <<"d0s", "d1", "d2">>,
      <<"d0m", "d1", "d2">>, <<"d0", "d1", "d2f">> }

SingleLines == { <<"eInvalidData">>, <<"eIsADirectory">>, <<"d1">> }

ChunksV1 ==
    { <<h, "blank", "blank">> : h \in {"h1", "h7", "h12", "hx"} }
    \cup { <<"h11", "blank", "blank", "d0", "d1", "d2">> }
    \cup DataGroups \cup SingleLines

ChunksV2 ==
    { <<h>> \o g : h \in {"h1", "h7", "h12", "hx"}, g \in {<<"d0", "d1", "d2">>} }
    \cup { <<"h1">> \o g : g \in DataGroups }
    \cup { <<"h12", "d0s", "d1", "d2">> }
    \cup SingleLines

Chunks(f) == IF f = "Reaclib1" THEN ChunksV1 ELSE ChunksV2

RECURSIVE Concat(_)
Concat(cs) == IF cs = <<>> THEN <<>> ELSE cs[1] \o Concat(Tail(cs))

Inputs(f) ==
    { Concat(cs) : cs \in UNION { [1..n -> Chunks(f)] : n \in 0..MaxChunks } }

(***************************************************************************)
(* Iter (lib.rs 431-518)                                                   *)
(*   format, chapter   the fields of Iter                                  *)
(*   input, pos        the field lines: the lines of the reader and the    *)
(*                     number of them already read                         *)
(*   items             what the calls of next have returned so far, in     *)
(*                     order: <<"None">>, <<"Ok", set>> or <<"Err", ..>>   *)
(*   prev              pos and chapter as they were before the last call   *)
(***************************************************************************)
VARIABLES format, input, pos, chapter, items, prev, arg, result

vars == <<format, input, pos, chapter, items, prev, arg, result>>

\* Lines::next at position p: None (<<>>) at the end of the input, else
\* Some(result).
lines_next(inp, p) == IF p < Len(inp) THEN <<LineResult(inp[p + 1])>> ELSE <<>>

\* The position after n calls of Lines::next from p.
Advance(inp, p, n) == IF p + n <= Len(inp) THEN p + n ELSE Len(inp)

\* Iter::new
Init ==
    /\ format \in {"Reaclib1", "Reaclib2"}
    /\ input \in Inputs(format)
    /\ pos = 0
    /\ chapter = <<>>
    /\ items = <<>>
    /\ prev = [pos |-> 0, chapter |-> <<>>]
    /\ arg = <<>>
    /\ result = <<>>

\* ReadGroup with a partial group at the end of the input taken for the end.
ReadGroup_DropPartial(inp, p, n) ==
    LET r    == [i \in 1..n |-> lines_next(inp, p + i - 1)]
        errs == {i \in 1..n : r[i] # <<>> /\ r[i][1][1] = "Err"}
    IN  IF \E i \in 1..n : r[i] = <<>> THEN <<"None">>
        ELSE IF errs # {}
             THEN <<"Err", "Io", r[CHOOSE i \in errs : \A j \in errs : i <= j][1][2]>>
        ELSE <<"Lines", [i \in 1..n |-> r[i][1][2]]>>

\* ReadGroup with the end of the input before the first line taken for a
\* group that is cut short.
ReadGroup_EmptyIsError(inp, p, n) ==
    LET r    == [i \in 1..n |-> lines_next(inp, p + i - 1)]
        errs == {i \in 1..n : r[i] # <<>> /\ r[i][1][1] = "Err"}
    IN  IF \E i \in 1..n : r[i] = <<>> THEN <<"Err", "TooFewLines", <<>>>>
        ELSE IF errs # {}
             THEN <<"Err", "Io", r[CHOOSE i \in errs : \A j \in errs : i <= j][1][2]>>
        ELSE <<"Lines", [i \in 1..n |-> r[i][1][2]]>>

\* The match on the n results of Lines::next (n = 3 in next_v1, 4 in
\* next_v2), its arms in the order of the source: <<"None">> when the first
\* is None, TooFewLines when a later one is None, the first read error as
\* Io(kind), and else the n lines as <<"Lines", lines>>.
ReadGroup(inp, p, n) ==
    LET r    == [i \in 1..n |-> lines_next(inp, p + i - 1)]
        errs == {i \in 1..n : r[i] # <<>> /\ r[i][1][1] = "Err"}
    IN  IF r[1] = <<>> THEN <<"None">>
        ELSE IF \E i \in 2..n : r[i] = <<>> THEN <<"Err", "TooFewLines", <<>>>>
        ELSE IF errs # {}
             THEN <<"Err", "Io", r[CHOOSE i \in errs : \A j \in errs : i <= j][1][2]>>
        ELSE <<"Lines", [i \in 1..n |-> r[i][1][2]]>>

\* HeaderOrSet that falls back to the record also when the group is a header
\* whose chapter code fails to parse.
HeaderOrSet_FallBack(ch, lines) ==
    LET h == from_lines_v1(lines)
    IN  IF h # <<>> /\ h[1][1] = "Ok" THEN <<"continue", <<h[1][2]>>>>
        ELSE IF ch # <<>> THEN <<"break", Set_from_lines(ch[1], lines)>>
        ELSE IF h # <<>> THEN <<"break", h[1]>>
        ELSE <<"break", <<"Err", "ChapterUnset", <<>>>>>>

\* HeaderOrSet with a record before any header decoded as Chapter1 instead
\* of refused.
HeaderOrSet_DefaultChapter(ch, lines) ==
    LET h == from_lines_v1(lines)
    IN  IF h # <<>> /\ h[1][1] = "Ok" THEN <<"continue", <<h[1][2]>>>>
        ELSE IF h # <<>> THEN <<"break", h[1]>>
        ELSE IF ch # <<>> THEN <<"break", Set_from_lines(ch[1], lines)>>
        ELSE <<"break", Set_from_lines("Chapter1", lines)>>

\* HeaderOrSet with the chapter of a header taken only while none is active.
HeaderOrSet_KeepChapter(ch, lines) ==
    LET h == from_lines_v1(lines)
    IN  IF h # <<>> /\ h[1][1] = "Ok"
        THEN <<"continue", IF ch = <<>> THEN <<h[1][2]>> ELSE ch>>
        ELSE IF h # <<>> THEN <<"break", h[1]>>
        ELSE IF ch # <<>> THEN <<"break", Set_from_lines(ch[1], lines)>>
        ELSE <<"break", <<"Err", "ChapterUnset", <<>>>>>>

\* The match on Chapter::from_lines_v1 in next_v1: <<"continue", chapter>>
\* after a chapter header, else <<"break", item>>.
HeaderOrSet(ch, lines) ==
    LET h == from_lines_v1(lines)
    IN  IF h # <<>> /\ h[1][1] = "Ok" THEN <<"continue", <<h[1][2]>>>>
        ELSE IF h # <<>> THEN <<"break", h[1]>>
        ELSE IF ch # <<>> THEN <<"break", Set_from_lines(ch[1], lines)>>
        ELSE <<"break", <<"Err", "ChapterUnset", <<>>>>>>

\* next_v1 that looks for the next group one line after a group that gave an
\* error.
RECURSIVE next_v1_Resync(_, _, _)
next_v1_Resync(inp, p, ch) ==
    LET g  == ReadGroup(inp, p, 3)
        p3 == Advance(inp, p, 3)
    IN  IF g[1] # "Lines" THEN [item |-> g, pos |-> p3, chapter |-> ch]
        ELSE LET m == HeaderOrSet(ch, g[2])
             IN  IF m[1] = "continue" THEN next_v1_Resync(inp, p3, m[2])
                 ELSE [item |-> m[2],
                       pos |-> IF m[2][1] = "Err" THEN p + 1 ELSE p3,
                       chapter |-> ch]

\* next_v1 with the active chapter cleared by a header that fails to parse.
RECURSIVE next_v1_FailedHeaderResets(_, _, _)
next_v1_FailedHeaderResets(inp, p, ch) ==
    LET g  == ReadGroup(inp, p, 3)
        p3 == Advance(inp, p, 3)
    IN  IF g[1] # "Lines" THEN [item |-> g, pos |-> p3, chapter |-> ch]
        ELSE LET m == HeaderOrSet(ch, g[2])
             IN  IF m[1] = "continue"
                 THEN next_v1_FailedHeaderResets(inp, p3, m[2])
                 ELSE [item |-> m[2], pos |-> p3,
                       chapter |-> IF from_lines_v1(g[2]) # <<>> THEN <<>> ELSE ch]

\* next_v1 returning None after a chapter header instead of reading on.
next_v1_HeaderEnds(inp, p, ch) ==
    LET g  == ReadGroup(inp, p, 3)
        p3 == Advance(inp, p, 3)
    IN  IF g[1] # "Lines" THEN [item |-> g, pos |-> p3, chapter |-> ch]
        ELSE LET m == HeaderOrSet(ch, g[2])
             IN  IF m[1] = "continue"
                 THEN [item |-> <<"None">>, pos |-> p3, chapter |-> m[2]]
                 ELSE [item |-> m[2], pos |-> p3, chapter |-> ch]

\* Iter::next_v1 from position p with active chapter ch: the item returned
\* and the position and the chapter it leaves.
RECURSIVE next_v1(_, _, _)
next_v1(inp, p, ch) ==
    LET g  == ReadGroup(inp, p, 3)
        p3 == Advance(inp, p, 3)
    IN  IF g[1] # "Lines" THEN [item |-> g, pos |-> p3, chapter |-> ch]
        ELSE LET m == HeaderOrSet(ch, g[2])
             IN  IF m[1] = "continue" THEN next_v1(inp, p3, m[2])
                 ELSE [item |-> m[2], pos |-> p3, chapter |-> ch]

\* The match on Chapter::from_lines_v2 in next_v2.
HeaderAndSet(ch_line, set_lines) ==
    LET c == from_lines_v2(ch_line)
    IN  IF c[1] = "Ok" THEN Set_from_lines(c[2], set_lines) ELSE c

\* next_v2 that keeps the chapter of the last valid header line and decodes
\* with it the groups whose own header line fails to parse.
next_v2_Sticky(inp, p, ch) ==
    LET g == ReadGroup(inp, p, 4)
        c == IF g[1] = "Lines" THEN from_lines_v2(g[2][1]) ELSE <<"Err">>
    IN  [item    |-> IF g[1] # "Lines" THEN g
                     ELSE IF c[1] = "Ok" THEN Set_from_lines(c[2], SubSeq(g[2], 2, 4))
                     ELSE IF ch # <<>> THEN Set_from_lines(ch[1], SubSeq(g[2], 2, 4))
                     ELSE c,
         pos     |-> Advance(inp, p, 4),
         chapter |-> IF c[1] = "Ok" THEN <<c[2]>> ELSE ch]

\* next_v2 with the header line taken for the first data line as well.
next_v2_OffByOne(inp, p, ch) ==
    LET g == ReadGroup(inp, p, 4)
    IN  [item    |-> IF g[1] # "Lines" THEN g
                     ELSE HeaderAndSet(g[2][1], SubSeq(g[2], 1, 3)),
         pos     |-> Advance(inp, p, 4),
         chapter |-> ch]

\* Iter::next_v2
next_v2(inp, p, ch) ==
    LET g == ReadGroup(inp, p, 4)
    IN  [item    |-> IF g[1] # "Lines" THEN g
                     ELSE HeaderAndSet(g[2][1], SubSeq(g[2], 2, 4)),
         pos     |-> Advance(inp, p, 4),
         chapter |-> ch]

\* The number of calls of next that returned None.
EndPulls == Cardinality({i \in 1..Len(items) : items[i] = <<"None">>})

\* The caller takes what a call of next returned.
Returned(r) ==
    /\ items' = Append(items, r.item)
    /\ pos' = r.pos
    /\ chapter' = r.chapter
    /\ prev' = [pos |-> pos, chapter |-> chapter]
    /\ UNCHANGED <<format, input, arg, result>>

\* Iter_next that returns None for good once it has returned an error.
Iter_next_Fused ==
    /\ EndPulls < MaxEndPulls
    /\ IF \E i \in 1..Len(items) : items[i][1] = "Err"
       THEN Returned([item |-> <<"None">>, pos |-> pos, chapter |-> chapter])
       ELSE \/ format = "Reaclib1" /\ Returned(next_v1(input, pos, chapter))
            \/ format = "Reaclib2" /\ Returned(next_v2(input, pos, chapter))

\* impl Iterator for Iter: next
Iter_next ==
    /\ EndPulls < MaxEndPulls
    /\ \/ format = "Reaclib1" /\ Returned(next_v1(input, pos, chapter))
       \/ format = "Reaclib2" /\ Returned(next_v2(input, pos, chapter))

Next == Iter_next

Spec == Init /\ [][Next]_vars


(***************************************************************************)
(* The chapter decoders on their own: arg is the text of a header line,    *)
(* result is empty until the decoder of the dialect was called and then    *)
(* holds what it returned.  The texts are the base-10 integers of          *)
(* magnitude at most MaxCode, plain, with a "+", with a leading zero and   *)
(* padded with spaces, and the negative ones with a "-".                   *)
(***************************************************************************)

MaxCode == 300

DigitChars == <<"0", "1", "2", "3", "4", "5", "6", "7", "8", "9">>

RECURSIVE Decimal(_)
Decimal(n) ==
    IF n < 10 THEN <<DigitChars[n + 1]>>
    ELSE Decimal(n \div 10) \o <<DigitChars[(n % 10) + 1]>>

\* The header texts that denote the integer v.
HeaderForms(v) ==
    IF v < 0 THEN { <<"-">> \o Decimal(-v) }
    ELSE { Decimal(v), <<"+">> \o Decimal(v), <<"0">> \o Decimal(v),
           <<" ">> \o Decimal(v) \o <<" ", " ">> }

HeaderTexts == UNION { HeaderForms(v) : v \in (-MaxCode)..MaxCode } \cup { <<"-", "0">> }

InitChapter ==
    /\ format \in {"Reaclib1", "Reaclib2"}
    /\ input = <<>>
    /\ pos = 0
    /\ chapter = <<>>
    /\ items = <<>>
    /\ prev = [pos |-> 0, chapter |-> <<>>]
    /\ arg \in HeaderTexts
    /\ result = <<>>

\* Chapter::from_lines_v1 on a group whose lines 2 and 3 are blank.
Chapter_from_lines_v1 ==
    /\ format = "Reaclib1"
    /\ result = <<>>
    /\ result' = <<from_lines_v1(<<arg, Text("blank"), <<>>>>)>>
    /\ UNCHANGED <<format, input, pos, chapter, items, prev, arg>>

\* Chapter::from_lines_v2
Chapter_from_lines_v2 ==
    /\ format = "Reaclib2"
    /\ result = <<>>
    /\ result' = <<from_lines_v2(arg)>>
    /\ UNCHANGED <<format, input, pos, chapter, items, prev, arg>>

\* Chapter::num_reactants and Chapter::num_products of the chapter decoded.
Chapter_counts ==
    /\ Len(result) = 1
    /\ LET r == IF format = "Reaclib1" THEN result[1][1] ELSE result[1]
       IN  /\ r[1] = "Ok"
           /\ result' = Append(result, <<num_reactants(r[2]), num_products(r[2])>>)
    /\ UNCHANGED <<format, input, pos, chapter, items, prev, arg>>

NextChapter == Chapter_from_lines_v1 \/ Chapter_from_lines_v2 \/ Chapter_counts

SpecChapter == InitChapter /\ [][NextChapter]_vars
(***************************************************************************)
(* Properties.  They are stated on the input and on what the calls of next *)
(* returned: the groups of the input are the lines 3k+1..3k+3 (dialect 1)  *)
(* or 4k+1..4k+4 (dialect 2), and the expected chapter of a header line is *)
(* read off the line itself (HeaderChapter), not off the iterator.         *)
(***************************************************************************)

NoneItem == <<"None">>

ErrItem(kind) == <<"Err", kind, <<>>>>

Pulled == Len(items) > 0

LastItem == items[Len(items)]

GroupSize == IF format = "Reaclib1" THEN 3 ELSE 4

\* The number of lines the last call of next read.
Read == pos - prev.pos

\* The last call read whole groups only, and at least one.
ReadWholeGroups == Pulled /\ Read > 0 /\ Read % GroupSize = 0

\* The last group the last call read (when it read whole groups).
LastGroup == SubSeq(input, pos - GroupSize + 1, pos)

AllText(g) == \A i \in 1..Len(g) : g[i] \in TextIds

IsBlankLine(id) ==
    id \in TextIds /\ \A i \in 1..Len(Text(id)) : Text(id)[i] \in {" ", "\t"}

HeaderShaped(g) == AllText(g) /\ IsBlankLine(g[2]) /\ IsBlankLine(g[3])

RecordShaped(g) == AllText(g) /\ ~(IsBlankLine(g[2]) /\ IsBlankLine(g[3]))

\* The header lines that hold a chapter code in 1..11, and the chapter each
\* one names.
GoodHeaderIds ==
    {"h1", "h2", "h3", "h4", "h5", "h6", "h7", "h8", "h9", "h10", "h11"}

HeaderChapter(id) ==
    CASE id = "h1" -> "Chapter1" [] id = "h2" -> "Chapter2"
      [] id = "h3" -> "Chapter3" [] id = "h4" -> "Chapter4"
      [] id = "h5" -> "Chapter5" [] id = "h6" -> "Chapter6"
      [] id = "h7" -> "Chapter7" [] id = "h8" -> "Chapter8"
      [] id = "h9" -> "Chapter9" [] id = "h10" -> "Chapter10"
      [] id = "h11" -> "Chapter11"

GoodHeader(g) == HeaderShaped(g) /\ g[1] \in GoodHeaderIds

\* A record that is valid under every chapter.
GoodRecord == <<"d0", "d1", "d2">>

\* Group k (from 0) of dialect 1.
Group1(k) == SubSeq(input, 3 * k + 1, 3 * k + 3)

\* The groups of dialect 1 that end at or before line p and are valid
\* headers, and the last of them.
GoodHeadersBefore(p) == {k \in 0..((p \div 3) - 1) : GoodHeader(Group1(k))}

LastGoodHeader(p) ==
    CHOOSE k \in GoodHeadersBefore(p) : \A j \in GoodHeadersBefore(p) : j <= k

\* The chapter that governs the last group read: in dialect 1 that of the
\* last valid header before it, in dialect 2 that of its own header line.
Governed ==
    /\ ReadWholeGroups
    /\ IF format = "Reaclib1"
       THEN GoodHeadersBefore(pos - 3) # {}
       ELSE LastGroup[1] \in GoodHeaderIds

GoverningChapter ==
    IF format = "Reaclib1"
    THEN HeaderChapter(Group1(LastGoodHeader(pos - 3))[1])
    ELSE HeaderChapter(LastGroup[1])

\* The three data lines of the last group read.
DataIds == SubSeq(input, pos - 2, pos)

DataLines == [i \in 1..3 |-> Text(DataIds[i])]

(***************************************************************************)
(* C1: in dialect 1, a call of next that reads a 3-line group which is not *)
(* header-shaped while no valid header precedes it returns                 *)
(* Err(ChapterUnset); on an input that is exactly one such group the calls *)
(* return Err(ChapterUnset) and then None.                                 *)
(***************************************************************************)
C1_ChapterUnset ==
    /\ ( /\ format = "Reaclib1"
         /\ ReadWholeGroups
         /\ RecordShaped(LastGroup)
         /\ GoodHeadersBefore(pos - 3) = {} )
       => LastItem = ErrItem("ChapterUnset")
    /\ ( /\ format = "Reaclib1"
         /\ Len(input) = 3
         /\ RecordShaped(input)
         /\ Pulled )
       => /\ items[1] = ErrItem("ChapterUnset")
          /\ \A i \in 2..Len(items) : items[i] = NoneItem

C1_Witness ==
    /\ format = "Reaclib1"
    /\ Len(input) = 3
    /\ RecordShaped(input)
    /\ items = <<ErrItem("ChapterUnset"), NoneItem>>

(***************************************************************************)
(* C2: in dialect 1, every record-shaped group is decoded with the chapter *)
(* of the last valid header before it, also when that header directly      *)
(* follows another header; a record decoded after a header has that        *)
(* header's reactant and product counts.                                   *)
(***************************************************************************)
C2_ChapterCarryOver ==
    ( /\ format = "Reaclib1"
      /\ ReadWholeGroups
      /\ RecordShaped(LastGroup)
      /\ Governed )
    => /\ LastItem = Set_from_lines(GoverningChapter, DataLines)
       /\ chapter = <<GoverningChapter>>
       /\ LastItem[1] = "Ok" =>
            /\ Len(LastItem[2].reactants) = num_reactants(GoverningChapter)
            /\ Len(LastItem[2].products) = num_products(GoverningChapter)

\* Two records of different shapes: the chapter was switched between them.
C2_Witness ==
    /\ format = "Reaclib1"
    /\ Len(items) = 2
    /\ items[1][1] = "Ok"
    /\ Len(items[1][2].reactants) = 1 /\ Len(items[1][2].products) = 4
    /\ items[2][1] = "Ok"
    /\ Len(items[2][2].reactants) = 2 /\ Len(items[2][2].products) = 4
    /\ chapter = <<"Chapter7">>

(***************************************************************************)
(* C3: every record returned as Ok, in either dialect, has as many         *)
(* reactants and products as its governing chapter says and exactly 7      *)
(* params; it is returned only under an active chapter (dialect 1) or with *)
(* its own valid header (dialect 2).                                       *)
(***************************************************************************)
C3_RecordShape ==
    (Pulled /\ LastItem[1] = "Ok")
    => /\ Governed
       /\ format = "Reaclib1" => chapter = <<GoverningChapter>>
       /\ Len(LastItem[2].reactants) = num_reactants(GoverningChapter)
       /\ Len(LastItem[2].products) = num_products(GoverningChapter)
       /\ Len(LastItem[2].reactants) + Len(LastItem[2].products)
            = num_reactants(GoverningChapter) + num_products(GoverningChapter)
       /\ Len(LastItem[2].params) = 7

C3_Witness ==
    /\ format = "Reaclib2"
    /\ Pulled /\ LastItem[1] = "Ok"
    /\ Len(LastItem[2].reactants) = 2
    /\ Len(LastItem[2].products) = 4
    /\ Len(items) = 2 /\ items[1][1] = "Ok" /\ Len(items[1][2].products) = 1

(***************************************************************************)
(* C4: when the input ends inside a group (1 or 2 lines left in dialect 1, *)
(* 1 to 3 in dialect 2), the call that reads those lines returns           *)
(* Err(TooFewLines), exactly once, and the call after it returns None; the *)
(* items before it are those of the input without the partial group.       *)
(***************************************************************************)
IsTooFewLines(item) == item = ErrItem("TooFewLines")

\* The items next returns on input inp, up to and including the first None.
RECURSIVE ItemsOf(_, _, _, _)
ItemsOf(f, inp, p, ch) ==
    LET r == IF f = "Reaclib1" THEN next_v1(inp, p, ch) ELSE next_v2(inp, p, ch)
    IN  IF r.item = NoneItem THEN <<NoneItem>>
        ELSE <<r.item>> \o ItemsOf(f, inp, r.pos, r.chapter)

C4_PartialTrailingGroup ==
    /\ \* the call that reads a partial group
       (Pulled /\ Read % GroupSize # 0)
       => /\ IsTooFewLines(LastItem)
          /\ pos = Len(input)
          /\ Len(input) % GroupSize # 0
    /\ \* exactly once, and only None after it
       \A i \in 1..Len(items) :
          IsTooFewLines(items[i]) => \A j \in (i + 1)..Len(items) : items[j] = NoneItem
    /\ \* the whole sequence, once the first None was returned
       (Len(input) % GroupSize # 0 /\ EndPulls = 1)
       => /\ Len(items) >= 2
          /\ IsTooFewLines(items[Len(items) - 1])
          /\ SubSeq(items, 1, Len(items) - 2) \o <<NoneItem>>
               = ItemsOf(format, Take(input, Len(input) - (Len(input) % GroupSize)),
                         0, <<>>)

C4_Witness ==
    /\ format = "Reaclib1"
    /\ Len(input) = 8
    /\ Len(items) = 3
    /\ items[1][1] = "Ok"
    /\ IsTooFewLines(items[2])
    /\ items[3] = NoneItem

(***************************************************************************)
(* C5: in both dialects a header with chapter code 12 makes the call that  *)
(* reads it return Err(UnknownChapter(12)); the header is not skipped: it  *)
(* is the last group that call reads.                                      *)
(***************************************************************************)
IsHeader12(g) ==
    /\ AllText(g)
    /\ g[1] = "h12"
    /\ format = "Reaclib1" => HeaderShaped(g)

\* The whole groups the last call read (their first lines' offsets).
GroupsRead == {p \in prev.pos..(pos - GroupSize) : (p - prev.pos) % GroupSize = 0}

C5_UnknownChapter ==
    ReadWholeGroups =>
       /\ IsHeader12(LastGroup) => LastItem = <<"Err", "UnknownChapter", 12>>
       /\ \A p \in GroupsRead :
            IsHeader12(SubSeq(input, p + 1, p + GroupSize)) => p = pos - GroupSize

C5_Witness ==
    /\ format = "Reaclib1"
    /\ Len(items) = 2
    /\ items[1][1] = "Ok"
    /\ IsHeader12(LastGroup)
    /\ items[2] = <<"Err", "UnknownChapter", 12>>


(***************************************************************************)
(* C6: a header text that is a base-10 integer v decodes to chapter v when *)
(* v is in 1..11.  Without a minus sign it fails with UnknownChapter(v)    *)
(* when v is 0 or in 12..255 and with ParseInt when v is above 255; with a *)
(* minus sign it fails with ParseInt.                                      *)
(***************************************************************************)
ChapterNames ==
    <<"Chapter1", "Chapter2", "Chapter3", "Chapter4", "Chapter5", "Chapter6",
      "Chapter7", "Chapter8", "Chapter9", "Chapter10", "Chapter11">>

Decoded == result # <<>>

\* What the chapter decoder returned: dialect 1 wraps it in Some.
ChapterResult == IF format = "Reaclib1" THEN result[1][1] ELSE result[1]

IsUnknownChapter(r, v) == r[1] = "Err" /\ r[2] = "UnknownChapter" /\ r[3] = v

IsParseInt(r) == r[1] = "Err" /\ r[2] = "ParseInt"

HasMinus(s) == \E i \in 1..Len(s) : s[i] = "-"

C6_ChapterDecoder ==
    Decoded =>
       /\ format = "Reaclib1" => Len(result[1]) = 1
       /\ \A v \in (-MaxCode)..MaxCode :
            arg \in HeaderForms(v) =>
               IF v \in 1..11 THEN ChapterResult = <<"Ok", ChapterNames[v]>>
               ELSE IF v \in 0..255 THEN IsUnknownChapter(ChapterResult, v)
               ELSE IsParseInt(ChapterResult)
       /\ HasMinus(arg) => IsParseInt(ChapterResult)

C6_Witness ==
    /\ format = "Reaclib2"
    /\ arg = <<"2", "5", "6">>
    /\ result = << <<"Err", "ParseInt", "PosOverflow">> >>

\* The statement with UnknownChapter(v) for every integer outside 1..11.
C6_UnknownForEveryOther ==
    Decoded =>
       \A v \in (-MaxCode)..MaxCode :
          arg \in HeaderForms(v) =>
             IF v \in 1..11 THEN ChapterResult = <<"Ok", ChapterNames[v]>>
             ELSE IsUnknownChapter(ChapterResult, v)

(***************************************************************************)
(* C7: after a call of next returned an error of decoding a group, the     *)
(* stream goes on: the next call returns None only at the end of the input *)
(* (in dialect 1 possibly after valid headers that end it), and when the   *)
(* lines it meets are a valid record under the active chapter              *)
(* (in dialect 1 possibly after one valid header, in dialect 2 with its    *)
(* own valid header) it reads exactly them and returns that record as Ok.  *)
(***************************************************************************)
DecodeErrorKinds ==
    {"ParseInt", "ParseFloat", "UnknownChapter", "UnknownResonance",
     "TooShortLine", "StrIndex", "ChapterUnset"}

IsDecodeError(item) ==
    Len(item) = 3 /\ item[1] = "Err" /\ item[2] \in DecodeErrorKinds

\* The call before the last one returned an error of decoding a group.
AfterDecodeError == Len(items) >= 2 /\ IsDecodeError(items[Len(items) - 1])

\* The n lines the last call met first, from offset k.
Met(k, n) == SubSeq(input, prev.pos + k + 1, prev.pos + k + n)

HasShape(item, c) ==
    /\ item[1] = "Ok"
    /\ Len(item[2].reactants) = num_reactants(c)
    /\ Len(item[2].products) = num_products(c)

C7_Recoverable ==
    AfterDecodeError =>
       /\ LastItem = NoneItem =>
            /\ pos = Len(input)
            /\ format = "Reaclib2" => prev.pos = Len(input)
            /\ format = "Reaclib1" =>
                 /\ Read % 3 = 0
                 /\ \A k \in 0..((Read \div 3) - 1) : GoodHeader(Met(3 * k, 3))
       /\ ( /\ format = "Reaclib1"
            /\ prev.chapter # <<>>
            /\ prev.pos + 3 <= Len(input)
            /\ Met(0, 3) = GoodRecord )
          => /\ HasShape(LastItem, prev.chapter[1])
             /\ LastItem = Set_from_lines(prev.chapter[1], DataLines)
             /\ pos = prev.pos + 3
       /\ ( /\ format = "Reaclib1"
            /\ prev.pos + 6 <= Len(input)
            /\ GoodHeader(Met(0, 3))
            /\ Met(3, 3) = GoodRecord )
          => /\ HasShape(LastItem, HeaderChapter(Met(0, 3)[1]))
             /\ pos = prev.pos + 6
       /\ ( /\ format = "Reaclib2"
            /\ prev.pos + 4 <= Len(input)
            /\ Met(0, 1)[1] \in GoodHeaderIds
            /\ Met(1, 3) = GoodRecord )
          => /\ HasShape(LastItem, HeaderChapter(Met(0, 1)[1]))
             /\ pos = prev.pos + 4

C7_Witness ==
    /\ format = "Reaclib1"
    /\ Len(items) = 3
    /\ items[1][1] = "Ok"
    /\ IsDecodeError(items[2]) /\ items[2][2] = "ParseFloat"
    /\ items[3][1] = "Ok"
    /\ pos = 12

(***************************************************************************)
(* C8: when one of the lines a call of next reads for a group is a read    *)
(* error, the call returns Err(Io(k)) with k the kind of such an error,    *)
(* whatever the other lines of the group are.                              *)
(***************************************************************************)
\* The lines of the last group the last call read, whole or cut short.
LastGroupStart == prev.pos + GroupSize * ((Read - 1) \div GroupSize)

LastLinesRead == SubSeq(input, LastGroupStart + 1, pos)

C8_ReadErrorIsIo ==
    (Pulled /\ Read > 0) =>
       \A i \in 1..Len(LastLinesRead) :
          LastLinesRead[i] \in ErrorIds =>
             /\ Len(LastItem) = 3
             /\ LastItem[1] = "Err"
             /\ LastItem[2] = "Io"
             /\ \E j \in 1..Len(LastLinesRead) :
                  /\ LastLinesRead[j] \in ErrorIds
                  /\ LastItem[3] = IoErrorKind(LastLinesRead[j])

(***************************************************************************)
(* C9: on an input of zero lines the first call of next returns None, in   *)
(* both dialects, and so does every later call.                            *)
(***************************************************************************)
C9_EmptyInput ==
    (Len(input) = 0 /\ Pulled) =>
       /\ items[1] = NoneItem
       /\ \A i \in 1..Len(items) : items[i] = NoneItem
       /\ pos = 0

C9_Witness ==
    /\ format = "Reaclib2"
    /\ input = <<>>
    /\ items = <<NoneItem>>

(***************************************************************************)
(* C10: in dialect 1 a valid header takes its 3 lines, sets the active     *)
(* chapter and gives no item: a call never stops on a valid header unless  *)
(* the input ends there, and then it returns None with that header's       *)
(* chapter active.  An input of valid headers only gives no item, and a    *)
(* well-formed input (valid headers and valid records, a header first)     *)
(* gives as many items as it has record groups, all Ok.                    *)
(***************************************************************************)
NumGroups1 == Len(input) \div 3

HeaderGroups1 == {k \in 0..(NumGroups1 - 1) : GoodHeader(Group1(k))}

RecordGroups1 == {k \in 0..(NumGroups1 - 1) : Group1(k) = GoodRecord}

WellFormed1 ==
    /\ format = "Reaclib1"
    /\ Len(input) > 0
    /\ Len(input) % 3 = 0
    /\ HeaderGroups1 \cup RecordGroups1 = 0..(NumGroups1 - 1)
    /\ 0 \in HeaderGroups1

Emitted == {i \in 1..Len(items) : items[i] # NoneItem}

C10_HeadersEmitNothing ==
    /\ ( /\ format = "Reaclib1"
         /\ ReadWholeGroups
         /\ GoodHeader(LastGroup) )
       => /\ LastItem = NoneItem
          /\ pos = Len(input)
          /\ chapter = <<HeaderChapter(LastGroup[1])>>
    /\ (WellFormed1 /\ RecordGroups1 = {} /\ Pulled)
       => /\ \A i \in 1..Len(items) : items[i] = NoneItem
          /\ pos = Len(input)
    /\ (WellFormed1 /\ EndPulls >= 1)
       => /\ Cardinality(Emitted) = Cardinality(RecordGroups1)
          /\ \A i \in Emitted : items[i][1] = "Ok"
    /\ (WellFormed1 /\ Pulled)
       => Cardinality(Emitted) <= Cardinality(RecordGroups1)

C10_Witness ==
    /\ format = "Reaclib1"
    /\ input = <<"h1", "blank", "blank", "h7", "blank", "blank", "d0", "d1", "d2">>
    /\ Len(items) = 2
    /\ items[1][1] = "Ok" /\ Len(items[1][2].products) = 4
    /\ items[2] = NoneItem
    /\ chapter = <<"Chapter7">>

(***************************************************************************)
(* The two dialects on the same record: the input is the header of chapter *)
(* code arg.code in the dialect of the iterator ([c, blank, blank] in      *)
(* dialect 1, [c] in dialect 2) followed by the 3 lines arg.lines.         *)
(***************************************************************************)

HeaderIds == <<"h1", "h2", "h3", "h4", "h5", "h6", "h7", "h8", "h9", "h10", "h11">>

\* Groups of 3 lines that are not header-shaped.
EquivGroups ==
    { <<a, "d1", c>> : a \in {"d0", "d0r", "d0s", "d0m"}, c \in {"d2", "d2f"} }
    \cup { <<"d0", "blank", "d2">>, <<"h1", "d1", "d2">>, <<"d1", "d1", "d1">> }

HeaderGroup(f, c) ==
    IF f = "Reaclib1" THEN <<HeaderIds[c], "blank", "blank">> ELSE <<HeaderIds[c]>>

InitEquiv ==
    /\ format \in {"Reaclib1", "Reaclib2"}
    /\ arg \in [code : 1..11, lines : EquivGroups]
    /\ input = HeaderGroup(format, arg.code) \o arg.lines
    /\ pos = 0
    /\ chapter = <<>>
    /\ items = <<>>
    /\ prev = [pos |-> 0, chapter |-> <<>>]
    /\ result = <<>>

SpecEquiv == InitEquiv /\ [][Next]_vars

(***************************************************************************)
(* C11: for every chapter code c in 1..11 and every group L of 3 lines     *)
(* that is not header-shaped, dialect 1 on [c, blank, blank] L and dialect *)
(* 2 on [c] L return the same single item, the record or the error of      *)
(* decoding L under chapter c, and then None.                              *)
(***************************************************************************)
\* Equality of two items, slot by slot.
ItemEq(a, b) ==
    /\ Len(a) = Len(b)
    /\ a[1] = b[1]
    /\ Len(a) >= 2 => a[2] = b[2]
    /\ (Len(a) = 3 /\ a[2] = b[2]) => a[3] = b[3]

SeqEq(s, t) == Len(s) = Len(t) /\ \A i \in 1..Len(s) : ItemEq(s[i], t[i])

OtherFormat == IF format = "Reaclib1" THEN "Reaclib2" ELSE "Reaclib1"

C11_DialectEquivalence ==
    EndPulls >= 1 =>
       /\ Len(items) >= 2
       /\ items[1] # NoneItem
       /\ items[2] = NoneItem
       /\ ItemEq(items[1],
                 Set_from_lines(ChapterNames[arg.code],
                                [i \in 1..3 |-> Text(arg.lines[i])]))
       /\ SeqEq(SubSeq(items, 1, 2),
                ItemsOf(OtherFormat,
                        HeaderGroup(OtherFormat, arg.code) \o arg.lines, 0, <<>>))

C11_Witness ==
    /\ format = "Reaclib2"
    /\ arg = [code |-> 10, lines |-> <<"d0", "d1", "d2">>]
    /\ Len(items) = 2
    /\ items[1][1] = "Ok"
    /\ Len(items[1][2].reactants) = 4
    /\ items[2] = NoneItem

(***************************************************************************)
(* A file of one dialect read in the other: the input is a well-formed     *)
(* file of the other dialect, of at most MaxFileGroups groups, with at     *)
(* least one record (dialect-1 files begin with a header).                 *)
(***************************************************************************)

MaxFileGroups == 3

FileHeaderIds == {"h1", "h4", "h7", "h10"}

BlankIds == {"blank", "blank20", "empty"}

FileGroups(f) ==
    IF f = "Reaclib1"
    THEN { <<h, b, b>> : h \in FileHeaderIds, b \in BlankIds } \cup { <<"d0", "d1", "d2">> }
    ELSE { <<h, "d0", "d1", "d2">> : h \in FileHeaderIds }

\* The well-formed files of dialect f.
Files(f) ==
    { Concat(gs) : gs \in
        { g \in UNION { [1..n -> FileGroups(f)] : n \in 1..MaxFileGroups } :
            /\ \E i \in 1..Len(g) : Len(g[i]) >= 3 /\ g[i][Len(g[i]) - 2] = "d0"
            /\ f = "Reaclib1" => g[1][1] \in FileHeaderIds } }

InitMismatch ==
    /\ format \in {"Reaclib1", "Reaclib2"}
    /\ input \in Files(IF format = "Reaclib1" THEN "Reaclib2" ELSE "Reaclib1")
    /\ pos = 0
    /\ chapter = <<>>
    /\ items = <<>>
    /\ prev = [pos |-> 0, chapter |-> <<>>]
    /\ arg = <<>>
    /\ result = <<>>

SpecMismatch == InitMismatch /\ [][Next]_vars

(***************************************************************************)
(* C12: a well-formed file of dialect 2 with a record, read as dialect 1,  *)
(* gives Err(ChapterUnset) as its first item; a well-formed file of        *)
(* dialect 1 with a header and a record, read as dialect 2, gives an error *)
(* as its first item.  In neither case an Ok item comes before the error,  *)
(* so collecting the items fails.                                          *)
(***************************************************************************)
C12_MismatchDetected ==
    Pulled =>
       /\ Len(items[1]) = 3
       /\ items[1][1] = "Err"
       /\ format = "Reaclib1" => items[1][2] = "ChapterUnset"
       /\ format = "Reaclib2" => items[1][2] \in {"TooShortLine", "ParseFloat"}

C12_Witness ==
    /\ format = "Reaclib2"
    /\ input = <<"h1", "blank", "blank", "d0", "d1", "d2">>
    /\ Len(items) = 2
    /\ Len(items[1]) = 3 /\ items[1][2] = "ParseFloat"
    /\ Len(items[2]) = 3 /\ items[2][2] = "TooFewLines"

(***************************************************************************)
(* The field extractor and the record decoder on their own.  arg is a call *)
(* of range_err (op "range_err": line, start, end) or of Set::from_lines   *)
(* (op "Set": chapter, lines); result is empty until the call was made and *)
(* then holds what it returned.  arg.case names how the lines were built   *)
(* from the valid record d0, d1, d2 (74 bytes each):                       *)
(*   "cut"  line arg.at cut to arg.n bytes                                 *)
(*   "mb"   a two-byte character at bytes arg.n, arg.n + 1 of line arg.at  *)
(*   "ws"   the same with a two-byte whitespace character                  *)
(*   "res"  byte 47 of line 0 (the resonance column) replaced              *)
(***************************************************************************)

RecordLines == <<d0, d1, d2>>

\* The column ranges Set::from_lines extracts from a line (lib.rs 130-158).
FieldRanges ==
    { <<5 + 5 * i, 10 + 5 * i>> : i \in 0..5 }
    \cup { <<43, 47>>, <<47, 48>>, <<48, 49>>, <<52, 64>> }
    \cup { <<0, 13>>, <<13, 26>>, <<26, 39>>, <<39, 52>> }

SetChapters == {"Chapter1", "Chapter7", "Chapter10"}

ResonanceBytes == {" ", "\t", "n", "r", "w", "s", "q", "N", "R", "W", "S", "v", "0"}

WithChar(line, p, lead, cont) == [line EXCEPT ![p + 1] = lead, ![p + 2] = cont]

LinesOf(case, at, n, b) ==
    [k \in 1..3 |->
        IF k # at + 1 THEN RecordLines[k]
        ELSE CASE case = "cut" -> Take(RecordLines[k], n)
               [] case = "mb"  -> WithChar(RecordLines[k], n, "MB1", "MB2")
               [] case = "ws"  -> WithChar(RecordLines[k], n, "WS1", "WS2")
               [] case = "res" -> [RecordLines[k] EXCEPT ![48] = b]]

Call(op, case, at, n, c, lines, start, end) ==
    [op |-> op, case |-> case, at |-> at, n |-> n, chapter |-> c,
     lines |-> lines, start |-> start, end |-> end]

SetCalls ==
    { Call("Set", "cut", at, n, c, LinesOf("cut", at, n, " "), 0, 0) :
        at \in 0..2, n \in 0..74, c \in SetChapters }
    \cup { Call("Set", case, at, n, c, LinesOf(case, at, n, " "), 0, 0) :
        case \in {"mb", "ws"}, at \in 0..2, n \in 0..72, c \in SetChapters }
    \cup { Call("Set", "res", 0, 47, c, LinesOf("res", 0, 47, b), 0, 0) :
        b \in ResonanceBytes, c \in SetChapters }

FieldCalls ==
    { Call("range_err", case, 0, n, "Chapter1", LinesOf(case, 0, n, " "), r[1], r[2]) :
        case \in {"cut", "mb", "ws"}, n \in 0..72, r \in FieldRanges }

InitSet ==
    /\ format = "Reaclib1"
    /\ input = <<>>
    /\ pos = 0
    /\ chapter = <<>>
    /\ items = <<>>
    /\ prev = [pos |-> 0, chapter |-> <<>>]
    /\ arg \in SetCalls \cup FieldCalls
    /\ result = <<>>

Call_range_err ==
    /\ arg.op = "range_err"
    /\ result = <<>>
    /\ result' = <<range_err(arg.lines[1], arg.start, arg.end)>>
    /\ UNCHANGED <<format, input, pos, chapter, items, prev, arg>>

Call_Set_from_lines ==
    /\ arg.op = "Set"
    /\ result = <<>>
    /\ result' = <<Set_from_lines(arg.chapter, arg.lines)>>
    /\ UNCHANGED <<format, input, pos, chapter, items, prev, arg>>

NextSet == Call_range_err \/ Call_Set_from_lines

SpecSet == InitSet /\ [][NextSet]_vars

(***************************************************************************)
(* C13: range_err fails with TooShortLine exactly when the line is shorter *)
(* than end; otherwise, on a range that lies on character boundaries, it   *)
(* returns the bytes start..end without leading and trailing whitespace,   *)
(* possibly none.  A record whose line 0, 1 or 2 is cut at or after byte   *)
(* 64, 52 or 39 decodes; cut before, it fails with TooShortLine.           *)
(***************************************************************************)
Called == result # <<>>

ErrIs(r, kind) == Len(r) = 3 /\ r[1] = "Err" /\ r[2] = kind

ContinuationBytes == {"MB2", "WS2"}

WhiteBytes == {" ", "\t", "WS1", "WS2"}

\* Offset b of the line does not fall inside a character.
OnBoundary(line, b) == b >= Len(line) \/ line[b + 1] \notin ContinuationBytes

\* s without its leading and trailing whitespace.
Trimmed(s) ==
    LET keep == {i \in 1..Len(s) : s[i] \notin WhiteBytes}
    IN  IF keep = {} THEN <<>>
        ELSE SubSeq(s, CHOOSE i \in keep : \A j \in keep : i <= j,
                       CHOOSE i \in keep : \A j \in keep : j <= i)

\* The last byte read of data lines 0, 1 and 2.
LastFieldEnd == <<64, 52, 39>>

C13_FieldExtraction ==
    /\ (Called /\ arg.op = "range_err") =>
          /\ ErrIs(result[1], "TooShortLine") <=> Len(arg.lines[1]) < arg.end
          /\ ( /\ Len(arg.lines[1]) >= arg.end
               /\ OnBoundary(arg.lines[1], arg.start)
               /\ OnBoundary(arg.lines[1], arg.end) )
             => /\ result[1][1] = "Ok"
                /\ result[1][2] = Trimmed(SubSeq(arg.lines[1], arg.start + 1, arg.end))
    /\ (Called /\ arg.op = "Set" /\ arg.case = "cut") =>
          IF arg.n >= LastFieldEnd[arg.at + 1]
          THEN /\ result[1][1] = "Ok"
               /\ ItemEq(result[1], Set_from_lines(arg.chapter, RecordLines))
          ELSE ErrIs(result[1], "TooShortLine")

C13_Witness ==
    /\ arg.op = "Set" /\ arg.case = "cut"
    /\ arg.at = 2 /\ arg.n = 39
    /\ arg.chapter = "Chapter10"
    /\ Called /\ result[1][1] = "Ok"
    /\ Len(result[1][2].params) = 7

(***************************************************************************)
(* C14: a two-byte character across the start or the end offset of a field *)
(* that is extracted makes the record fail with StrIndex (the line being   *)
(* long enough); a two-byte character that is not whitespace and lies      *)
(* wholly inside a numeric field makes it fail with ParseFloat.  A         *)
(* whitespace one inside a numeric field is trimmed with the padding or    *)
(* fails the parse: the record is Ok or fails with ParseFloat.             *)
(***************************************************************************)
\* The ranges Set::from_lines extracts from data line at (0..2) under chapter c.
FieldsRead(c, at) ==
    CASE at = 0 ->
           { <<5 + 5 * i, 10 + 5 * i>> : i \in 0..(num_reactants(c) + num_products(c) - 1) }
           \cup { <<43, 47>>, <<47, 48>>, <<48, 49>>, <<52, 64>> }
      [] at = 1 -> { <<0, 13>>, <<13, 26>>, <<26, 39>>, <<39, 52>> }
      [] at = 2 -> { <<0, 13>>, <<13, 26>>, <<26, 39>> }

NumericFields(at) == IF at = 0 THEN { <<52, 64>> } ELSE FieldsRead("Chapter1", at)

TwoByteCase == Called /\ arg.op = "Set" /\ arg.case \in {"mb", "ws"}

\* The character at bytes n, n + 1 lies across an offset of a field read.
Straddles ==
    \E r \in FieldsRead(arg.chapter, arg.at) : arg.n + 1 \in {r[1], r[2]}

InsideNumeric ==
    \E r \in NumericFields(arg.at) : r[1] <= arg.n /\ arg.n + 2 <= r[2]

C14_MultiByte ==
    TwoByteCase =>
       /\ Straddles => ErrIs(result[1], "StrIndex")
       /\ (InsideNumeric /\ arg.case = "mb") => ErrIs(result[1], "ParseFloat")
       /\ (InsideNumeric /\ arg.case = "ws") =>
             result[1][1] = "Ok" \/ ErrIs(result[1], "ParseFloat")

C14_Witness ==
    /\ TwoByteCase
    /\ arg.case = "mb" /\ arg.at = 1 /\ arg.n = 14
    /\ InsideNumeric
    /\ ErrIs(result[1], "ParseFloat")

\* The statement for every two-byte character, whitespace included.
C14_AnyMultiByte ==
    TwoByteCase =>
       /\ Straddles => ErrIs(result[1], "StrIndex")
       /\ InsideNumeric => ErrIs(result[1], "ParseFloat")

(***************************************************************************)
(* C15: the byte of the resonance column (byte 47 of data line 0), trimmed, *)
(* decodes as empty or "n" to NonResonant, "r" to Resonant, "w" to Weak    *)
(* and "s" to S; any other text fails the record with UnknownResonance     *)
(* carrying that text, and no other text gives a variant.                  *)
(***************************************************************************)
ResonanceCase == Called /\ arg.op = "Set" /\ arg.case = "res"

\* The text of the resonance column: its byte, or nothing when it is blank.
ResonanceText ==
    IF arg.lines[1][48] \in {" ", "\t"} THEN <<>> ELSE <<arg.lines[1][48]>>

ResonanceCodes == {<<>>, <<"n">>, <<"r">>, <<"w">>, <<"s">>}

ResonanceOf(t) ==
    CASE t = <<>> -> "NonResonant" [] t = <<"n">> -> "NonResonant"
      [] t = <<"r">> -> "Resonant" [] t = <<"w">> -> "Weak" [] t = <<"s">> -> "S"

C15_ResonanceDecoding ==
    ResonanceCase =>
       IF ResonanceText \in ResonanceCodes
       THEN /\ result[1][1] = "Ok"
            /\ result[1][2].resonance = ResonanceOf(ResonanceText)
       ELSE /\ ErrIs(result[1], "UnknownResonance")
            /\ result[1][3] = ResonanceText

C15_Witness ==
    /\ ResonanceCase
    /\ ResonanceText = <<"N">>
    /\ ErrIs(result[1], "UnknownResonance")
    /\ result[1][3] = <<"N">>

(***************************************************************************)
(* C16: for each of the 11 chapters num_reactants() + num_products() lies  *)
(* in 2..6 (6 for Chapter7 and Chapter10).                                 *)
(***************************************************************************)
Counted == Len(result) = 2

C16_ParticipantTotals == Counted => result[2][1] + result[2][2] \in 2..6

C16_Witness ==
    /\ Counted
    /\ ChapterResult = <<"Ok", "Chapter7">>
    /\ result[2][1] + result[2][2] = 6

\* The statement with the totals in 2..5.
C16_TotalsUpTo5 == Counted => result[2][1] + result[2][2] \in 2..5

(***************************************************************************)
(* C17: the header code k in 1..11 decodes to Chapter k, and               *)
(* (num_reactants, num_products) of chapters 1..11 is (1,1), (1,2), (1,3), *)
(* (2,1), (2,2), (2,3), (2,4), (3,1), (3,2), (4,2), (1,4): both counts are *)
(* in 1..4.                                                                *)
(***************************************************************************)
ShapeTable ==
    << <<1, 1>>, <<1, 2>>, <<1, 3>>, <<2, 1>>, <<2, 2>>, <<2, 3>>, <<2, 4>>,
       <<3, 1>>, <<3, 2>>, <<4, 2>>, <<1, 4>> >>

C17_ShapeTable ==
    Counted =>
       /\ result[2][1] \in 1..4 /\ result[2][2] \in 1..4
       /\ \E k \in 1..11 :
            /\ \E form \in HeaderForms(k) : arg = form
            /\ ChapterResult = <<"Ok", ChapterNames[k]>>
            /\ result[2] = ShapeTable[k]

C17_Witness ==
    /\ Counted
    /\ arg = <<"+", "1", "0">>
    /\ ChapterResult = <<"Ok", "Chapter10">>
    /\ result[2] = <<4, 2>>

(***************************************************************************)
(* Set::rate (lib.rs 174-183).  The rate is exp of a sum of terms; the     *)
(* model keeps the sum as an expression: the constant term, the five terms *)
(* coefficient * T^exponent and the coefficient of ln(T).  An exponent is  *)
(* the exact rational <<numerator, denominator>> that the source           *)
(* expression 2.0 * i * 5.0 / 3.0 denotes (the code uses the double        *)
(* nearest to it).  arg holds the 7 params and the temperature.            *)
(***************************************************************************)

RECURSIVE GCD(_, _)
GCD(a, b) == IF b = 0 THEN a ELSE GCD(b, a % b)

\* The rational n / d in lowest terms.
Ratio(n, d) == <<n \div GCD(n, d), d \div GCD(n, d)>>

\* params is indexed from 0 in the source: params[i] is p[i + 1].
Set_rate(p, temperature) ==
    [ constant |-> p[1],
      powers   |-> [i \in 1..5 |->
                      [coefficient |-> p[i + 1],
                       base        |-> temperature,
                       exponent    |-> Ratio(2 * i * 5, 3)]],
      ln       |-> [coefficient |-> p[7], of |-> temperature] ]

ParamValues == {0, 1}

Temperatures == {1, 2}

InitRate ==
    /\ format = "Reaclib1"
    /\ input = <<>>
    /\ pos = 0
    /\ chapter = <<>>
    /\ items = <<>>
    /\ prev = [pos |-> 0, chapter |-> <<>>]
    /\ arg \in [params : [1..7 -> ParamValues], temperature : Temperatures]
    /\ result = <<>>

Call_Set_rate ==
    /\ result = <<>>
    /\ result' = <<Set_rate(arg.params, arg.temperature)>>
    /\ UNCHANGED <<format, input, pos, chapter, items, prev, arg>>

NextRate == Call_Set_rate

SpecRate == InitRate /\ [][NextRate]_vars

(***************************************************************************)
(* C18: in Set::rate params[i] multiplies the temperature to the power     *)
(* 2 * i / 3 for i = 1..5 (2/3, 4/3, 2, 8/3, 10/3, as exact rationals),    *)
(* params[0] is the constant term and params[6] multiplies ln(T).          *)
(***************************************************************************)
C18_RateExponents ==
    Called =>
       /\ result[1].constant = arg.params[1]
       /\ result[1].ln = [coefficient |-> arg.params[7], of |-> arg.temperature]
       /\ \A i \in 1..5 :
            /\ result[1].powers[i].coefficient = arg.params[i + 1]
            /\ result[1].powers[i].base = arg.temperature
            /\ result[1].powers[i].exponent = Ratio(2 * i, 3)
       /\ [i \in 1..5 |-> result[1].powers[i].exponent]
            = << <<2, 3>>, <<4, 3>>, <<2, 1>>, <<8, 3>>, <<10, 3>> >>

(***************************************************************************)
(* to_hash_map (lib.rs 537-550).  The HashMap is a function from the keys  *)
(* (reactants, products) to the Vec of the records under the key.  The     *)
(* inputs are concatenations of at most MaxMapGroups fragments: headers,   *)
(* three valid records (two of the same reaction, one of another), a       *)
(* faulty record and a single line.                                        *)
(***************************************************************************)

MaxMapGroups == 4

MapRecords == { <<"d0", "d1", "d2">>, <<"d0n", "d1", "d2">>, <<"d0x", "d1", "d2">> }

MapChunks(f) ==
    IF f = "Reaclib1"
    THEN { <<"h1", "blank", "blank">> }
         \cup MapRecords \cup { <<"d0r", "d1", "d2">>, <<"d1">> }
    ELSE { <<"h1">> \o g : g \in MapRecords }
         \cup { <<"h4", "d0", "d1", "d2">> }
         \cup { <<"h1", "d0r", "d1", "d2">>, <<"d1">> }

MapInputs(f) ==
    { Concat(cs) : cs \in UNION { [1..n -> MapChunks(f)] : n \in 0..MaxMapGroups } }

\* HashMap::new()
EmptyMap == [k \in {} |-> <<>>]

\* m.entry(key).or_insert_with(Vec::new).push(set) with the map keeping only
\* the last record of a key.
Insert_Overwrite(m, set) ==
    LET key == <<set.reactants, set.products>>
    IN  IF key \in DOMAIN m THEN [m EXCEPT ![key] = <<set>>]
        ELSE m @@ (key :> <<set>>)

\* m.entry(key).or_insert_with(Vec::new).push(set)
Insert(m, set) ==
    LET key == <<set.reactants, set.products>>
    IN  IF key \in DOMAIN m THEN [m EXCEPT ![key] = Append(@, set)]
        ELSE m @@ (key :> <<set>>)

IterNext(f, inp, p, ch) ==
    IF f = "Reaclib1" THEN next_v1(inp, p, ch) ELSE next_v2(inp, p, ch)

\* The for loop with errors skipped instead of returned.
RECURSIVE to_hash_map_loop_SkipErrors(_, _, _, _, _)
to_hash_map_loop_SkipErrors(f, inp, p, ch, m) ==
    LET r == IterNext(f, inp, p, ch)
    IN  IF r.item[1] = "None" THEN <<"Ok", m>>
        ELSE IF r.item[1] = "Err"
             THEN to_hash_map_loop_SkipErrors(f, inp, r.pos, r.chapter, m)
        ELSE to_hash_map_loop_SkipErrors(f, inp, r.pos, r.chapter, Insert(m, r.item[2]))

\* The for loop of to_hash_map from iterator state (p, ch) with map m:
\* `set?` returns the first error, the end of the iterator returns Ok(m).
RECURSIVE to_hash_map_loop(_, _, _, _, _)
to_hash_map_loop(f, inp, p, ch, m) ==
    LET r == IterNext(f, inp, p, ch)
    IN  IF r.item[1] = "None" THEN <<"Ok", m>>
        ELSE IF r.item[1] = "Err" THEN r.item
        ELSE to_hash_map_loop(f, inp, r.pos, r.chapter, Insert(m, r.item[2]))

to_hash_map(reader, f) == to_hash_map_loop(f, reader, 0, <<>>, EmptyMap)

InitMap ==
    /\ format \in {"Reaclib1", "Reaclib2"}
    /\ input \in MapInputs(format)
    /\ pos = 0
    /\ chapter = <<>>
    /\ items = <<>>
    /\ prev = [pos |-> 0, chapter |-> <<>>]
    /\ arg = <<>>
    /\ result = <<>>

Call_to_hash_map ==
    /\ result = <<>>
    /\ result' = <<to_hash_map(input, format)>>
    /\ UNCHANGED <<format, input, pos, chapter, items, prev, arg>>

NextMap == Call_to_hash_map

SpecMap == InitMap /\ [][NextMap]_vars

(***************************************************************************)
(* C19: to_hash_map returns Err(e) with e the first error among the items  *)
(* of the iterator on the same input and format, also when records came    *)
(* before it, and returns Ok only when every item is Ok.                   *)
(***************************************************************************)
\* The items of the iterator on the input, without the closing None.
Sequence ==
    LET its == ItemsOf(format, input, 0, <<>>) IN SubSeq(its, 1, Len(its) - 1)

ErrorsOf(s) == {i \in 1..Len(s) : s[i][1] = "Err"}

FirstError(s) == s[CHOOSE i \in ErrorsOf(s) : \A j \in ErrorsOf(s) : i <= j]

FailFast(s, r) ==
    /\ ErrorsOf(s) # {} =>
          /\ r[1] = "Err"
          /\ ItemEq(r, FirstError(s))
    /\ ErrorsOf(s) = {} =>
          /\ Len(r) = 2
          /\ r[1] = "Ok"

C19_FailFast == Called => FailFast(Sequence, result[1])

C19_Witness ==
    /\ Called
    /\ format = "Reaclib1"
    /\ Len(Sequence) = 3
    /\ Sequence[1][1] = "Ok"
    /\ ErrIs(Sequence[2], "UnknownResonance")
    /\ ErrIs(Sequence[3], "TooFewLines")
    /\ ErrIs(result[1], "UnknownResonance")

(***************************************************************************)
(* C20: when to_hash_map returns Ok(m), the keys of m are the (reactants,  *)
(* products) of the records of the iterator's sequence, the list under a   *)
(* key is the records with that key in the order of the input, and the     *)
(* lengths of the lists add up to the number of records.                   *)
(***************************************************************************)
KeyOf(item) == <<item[2].reactants, item[2].products>>

\* The records of s with key k, in order.
RECURSIVE WithKey(_, _)
WithKey(s, k) ==
    IF s = <<>> THEN <<>>
    ELSE (IF KeyOf(s[1]) = k THEN <<s[1][2]>> ELSE <<>>) \o WithKey(Tail(s), k)

RECURSIVE TotalLength(_, _)
TotalLength(m, keys) ==
    IF keys = {} THEN 0
    ELSE LET k == CHOOSE x \in keys : TRUE
         IN  Len(m[k]) + TotalLength(m, keys \ {k})

Grouping(s, m) ==
    /\ DOMAIN m = {KeyOf(s[i]) : i \in 1..Len(s)}
    /\ \A k \in DOMAIN m : m[k] = WithKey(s, k)
    /\ TotalLength(m, DOMAIN m) = Len(s)

C20_Grouping ==
    (Called /\ result[1][1] = "Ok") => Grouping(Sequence, result[1][2])

C20_Witness ==
    /\ Called /\ result[1][1] = "Ok"
    /\ format = "Reaclib1"
    /\ input = <<"h1", "blank", "blank", "d0", "d1", "d2", "d0x", "d1", "d2",
                 "d0n", "d1", "d2">>
    /\ Cardinality(DOMAIN result[1][2]) = 2
    /\ \E k \in DOMAIN result[1][2] :
          /\ Len(result[1][2][k]) = 2
          /\ result[1][2][k][1].resonance = "Weak"
          /\ result[1][2][k][2].resonance = "NonResonant"

(***************************************************************************)
(* Two iterators over the same lines with the same format.  The first is   *)
(* the iterator of the variables pos, chapter, items and prev; the second  *)
(* keeps its position and chapter in arg (with their values before its     *)
(* last call in arg.prev) and what its calls of next returned in result.   *)
(* The calls of the two interleave in any order.                           *)
(***************************************************************************)

MaxTwinChunks == 3

TwinChunks(f) ==
    IF f = "Reaclib1"
    THEN { <<"h1", "blank", "blank">>, <<"h7", "blank", "blank">>,
           <<"hx", "blank", "blank">>, <<"d0", "d1", "d2">>, <<"d1">> }
    ELSE { <<"h1", "d0", "d1", "d2">>, <<"h7", "d0", "d1", "d2">>,
           <<"hx", "d0", "d1", "d2">>, <<"h1", "d0r", "d1", "d2">>, <<"d1">> }

TwinInputs(f) ==
    { Concat(cs) : cs \in UNION { [1..n -> TwinChunks(f)] : n \in 0..MaxTwinChunks } }

\* Iter::new, twice on the same lines
InitTwin ==
    /\ format \in {"Reaclib1", "Reaclib2"}
    /\ input \in TwinInputs(format)
    /\ pos = 0
    /\ chapter = <<>>
    /\ items = <<>>
    /\ prev = [pos |-> 0, chapter |-> <<>>]
    /\ arg = [pos |-> 0, chapter |-> <<>>, prev |-> [pos |-> 0, chapter |-> <<>>]]
    /\ result = <<>>

TwinEndPulls == Cardinality({i \in 1..Len(result) : result[i] = <<"None">>})

\* next of the second iterator with the chapter field shared between the
\* two iterators.
Twin_next_SharedChapter ==
    /\ TwinEndPulls < MaxEndPulls
    /\ LET r == IterNext(format, input, arg.pos, chapter)
       IN  /\ result' = Append(result, r.item)
           /\ arg' = [pos |-> r.pos, chapter |-> r.chapter,
                      prev |-> [pos |-> arg.pos, chapter |-> arg.chapter]]
    /\ UNCHANGED <<format, input, pos, chapter, items, prev>>

\* impl Iterator for Iter: next, on the second iterator
Twin_next ==
    /\ TwinEndPulls < MaxEndPulls
    /\ LET r == IterNext(format, input, arg.pos, arg.chapter)
       IN  /\ result' = Append(result, r.item)
           /\ arg' = [pos |-> r.pos, chapter |-> r.chapter,
                      prev |-> [pos |-> arg.pos, chapter |-> arg.chapter]]
    /\ UNCHANGED <<format, input, pos, chapter, items, prev>>

NextTwin == Iter_next \/ Twin_next

SpecTwin == InitTwin /\ [][NextTwin]_vars

(***************************************************************************)
(* C21: two iterators over the same lines with the same format return the  *)
(* same items call by call (records, errors and None alike), and two calls *)
(* that start with the same active chapter and read the same lines return  *)
(* the same item and leave the same chapter.                               *)
(***************************************************************************)
Shorter(m, n) == IF m <= n THEN m ELSE n

MaxGroupChunks == 3

GroupChunksV1 ==
    { <<"h1", "blank", "blank">>, <<"h7", "empty", "blankt">>,
      <<"hx", "blank", "blank">>, <<"h12", "blank20", "empty">>,
      <<"h300", "blank", "blank">>,
      <<"blank", "blank", "blank">>, <<"d0", "blankt", "blank">>,
      <<"d0", "d1", "d2">>, <<"d0r", "d1", "d2">>,
      <<"h1", "blank", "d2">>, <<"d0", "d1", "blank">>,
      <<"d1">>, <<"eInvalidData">> }

GroupChunksV2 ==
    { <<"h1", "d0", "d1", "d2">>, <<"h7", "d0", "d1", "d2">>,
      <<"h1", "d0r", "d1", "d2">>, <<"h4", "d0", "d1", "d2f">>,
      <<"hx", "d0", "d1", "d2">>, <<"hx", "d0r", "d1", "d2">>,
      <<"h12", "d0s", "d1", "d2">>, <<"blank", "d0", "d1", "d2">>,
      <<"d1">>, <<"eInvalidData">> }

GroupInputs(f) ==
    LET chunks == IF f = "Reaclib1" THEN GroupChunksV1 ELSE GroupChunksV2
    IN  { Concat(cs) : cs \in UNION { [1..n -> chunks] : n \in 0..MaxGroupChunks } }

\* Iter::new
InitGroups ==
    /\ format \in {"Reaclib1", "Reaclib2"}
    /\ input \in GroupInputs(format)
    /\ pos = 0
    /\ chapter = <<>>
    /\ items = <<>>
    /\ prev = [pos |-> 0, chapter |-> <<>>]
    /\ arg = <<>>
    /\ result = <<>>

SpecGroups == InitGroups /\ [][Next]_vars

(***************************************************************************)
(* C22: in dialect 1 the active chapter is none before the first call; a   *)
(* call that read no valid header leaves it as it was, whatever the call   *)
(* returned, and a call that read valid headers leaves the chapter of the  *)
(* last of them; an active chapter never becomes none again, ChapterUnset  *)
(* is returned only while no valid header was read, and a record after a   *)
(* header that failed to parse is decoded with the chapter that was active *)
(* before that header.                                                     *)
(***************************************************************************)
\* The whole groups the last call read that are valid headers.
HeadersRead ==
    {k \in (prev.pos \div 3)..((pos \div 3) - 1) : GoodHeader(Group1(k))}

LastHeaderRead == CHOOSE k \in HeadersRead : \A j \in HeadersRead : j <= k

IsChapterUnset(item) == Len(item) = 3 /\ item[1] = "Err" /\ item[2] = "ChapterUnset"

FailedHeader(g) == HeaderShaped(g) /\ g[1] \notin GoodHeaderIds

\* The last call read one record-shaped group that directly follows a
\* header-shaped group that is not a valid header.
AfterFailedHeader ==
    /\ Pulled /\ Read = 3 /\ prev.pos >= 3 /\ prev.pos % 3 = 0
    /\ RecordShaped(LastGroup)
    /\ FailedHeader(SubSeq(input, prev.pos - 2, prev.pos))

C22_ChapterTransitions ==
    format = "Reaclib1" =>
       /\ ~Pulled => chapter = <<>>
       /\ Pulled =>
             /\ HeadersRead = {} => chapter = prev.chapter
             /\ HeadersRead # {} =>
                   chapter = <<HeaderChapter(Group1(LastHeaderRead)[1])>>
             /\ prev.chapter # <<>> => chapter # <<>>
             /\ IsChapterUnset(LastItem) =>
                   (GoodHeadersBefore(pos) = {} /\ chapter = <<>>)
             /\ (AfterFailedHeader /\ prev.chapter # <<>>) =>
                   ItemEq(LastItem, Set_from_lines(prev.chapter[1], DataLines))

\* A header, a header that fails to parse and a record: the record is
\* decoded with the chapter of the first header.
C22_Witness ==
    /\ format = "Reaclib1"
    /\ input = <<"h7", "empty", "blankt", "hx", "blank", "blank", "d0", "d1", "d2">>
    /\ Len(items) = 2
    /\ IsParseInt(items[1])
    /\ AfterFailedHeader
    /\ items[2][1] = "Ok"
    /\ Len(items[2][2].products) = 4
    /\ chapter = <<"Chapter7">>

(***************************************************************************)
(* C23: in dialect 1 a group of 3 lines is taken for a chapter header      *)
(* exactly when its lines 2 and 3 are whitespace-only, whether or not a    *)
(* chapter is active.  A call consumes valid headers without an item; a    *)
(* header-shaped group whose line 1 is not a chapter code returns ParseInt *)
(* (line 1 is not an integer, a blank line included) or UnknownChapter,    *)
(* never a record, a record-decoding error or ChapterUnset; every other    *)
(* group is decoded as a record (or refused with ChapterUnset).            *)
(***************************************************************************)
\* Header lines whose trimmed text is an integer of the u8 range (300 is an
\* integer, but parse::<u8> refuses it: ParseInt).
IntegerIds == GoodHeaderIds \cup {"h12"}

\* The last call read whole groups of text lines only.
ReadTextGroups ==
    ReadWholeGroups /\ AllText(SubSeq(input, prev.pos + 1, pos))

C23_HeaderFirst ==
    (format = "Reaclib1" /\ ReadTextGroups) =>
       /\ \A k \in (prev.pos \div 3)..((pos \div 3) - 2) : GoodHeader(Group1(k))
       /\ LastItem = NoneItem => GoodHeader(LastGroup)
       /\ (LastItem # NoneItem /\ HeaderShaped(LastGroup)) =>
             /\ ~GoodHeader(LastGroup)
             /\ IF LastGroup[1] \in IntegerIds
                THEN IsUnknownChapter(LastItem, 12)
                ELSE IsParseInt(LastItem)
       /\ (LastItem # NoneItem /\ ~HeaderShaped(LastGroup)) =>
             IF chapter = <<>> THEN IsChapterUnset(LastItem)
             ELSE ItemEq(LastItem, Set_from_lines(chapter[1], DataLines))

\* With Chapter1 active, a data line 0 followed by two blank lines and a
\* group of three blank lines both return ParseInt.
C23_Witness ==
    /\ format = "Reaclib1"
    /\ input = <<"h1", "blank", "blank", "d0", "blankt", "blank",
                 "blank", "blank", "blank">>
    /\ Len(items) = 2
    /\ IsParseInt(items[1]) /\ IsParseInt(items[2])
    /\ chapter = <<"Chapter1">>

(***************************************************************************)
(* The record decoder on groups with several faults.  The lines are the    *)
(* valid record d0, d1, d2 with the byte edits of arg.faults applied and   *)
(* then line k cut to arg.cut[k + 1] bytes.  Every edit makes one field    *)
(* fail:                                                                   *)
(*   "nuc" a two-byte character across offset 10 of line 0, the end of the *)
(*         first nuclide column                                            *)
(*   "lab" a two-byte character across offset 43 of line 0, the start of   *)
(*         the label                                                       *)
(*   "res" the resonance column (offset 47) is "q"                         *)
(*   "rev" a two-byte character across offset 49 of line 0, the end of the *)
(*         reverse flag                                                    *)
(*   "q"   an "x" in the Q-value                                           *)
(*   "p1"  an "x" in params[1] (line 1)                                    *)
(*   "p5"  an "x" in params[5] (line 2)                                    *)
(***************************************************************************)

FaultNames == {"nuc", "lab", "res", "rev", "q", "p1", "p5"}

\* The edits of a fault: <<line (0..2), offset, byte>>.
FaultEdits(f) ==
    CASE f = "nuc" -> {<<0, 9, "MB1">>, <<0, 10, "MB2">>}
      [] f = "lab" -> {<<0, 42, "MB1">>, <<0, 43, "MB2">>}
      [] f = "res" -> {<<0, 47, "q">>}
      [] f = "rev" -> {<<0, 48, "MB1">>, <<0, 49, "MB2">>}
      [] f = "q"   -> {<<0, 55, "x">>}
      [] f = "p1"  -> {<<1, 16, "x">>}
      [] f = "p5"  -> {<<2, 16, "x">>}

\* The lengths the lines are cut to (74: not cut).
CutLengths == <<{74, 60, 47, 12}, {74, 30}, {39, 20}>>

FaultChapters == {"Chapter1", "Chapter10"}

FaultyLines(faults, cut) ==
    LET edits == UNION {FaultEdits(f) : f \in faults}
        edited(k) ==
            [i \in 1..74 |->
                IF \E e \in edits : e[1] = k /\ e[2] = i - 1
                THEN (CHOOSE e \in edits : e[1] = k /\ e[2] = i - 1)[3]
                ELSE RecordLines[k + 1][i]]
    IN  [k \in 1..3 |-> Take(edited(k - 1), cut[k])]

FaultCalls(chapters) ==
    { [op |-> "Set", faults |-> fs, cut |-> <<n0, n1, n2>>, chapter |-> c,
       lines |-> FaultyLines(fs, <<n0, n1, n2>>)] :
        fs \in SUBSET FaultNames, n0 \in CutLengths[1], n1 \in CutLengths[2],
        n2 \in CutLengths[3], c \in chapters }

InitFaults ==
    /\ format = "Reaclib1"
    /\ input = <<>>
    /\ pos = 0
    /\ chapter = <<>>
    /\ items = <<>>
    /\ prev = [pos |-> 0, chapter |-> <<>>]
    /\ arg \in FaultCalls(FaultChapters)
    /\ result = <<>>

NextFaults == Call_Set_from_lines

SpecFaults == InitFaults /\ [][NextFaults]_vars

(***************************************************************************)
(* C24: the fields are decoded in the order reactants, products, label,    *)
(* resonance, reverse flag, Q-value, params[0..6]; a record with several   *)
(* faulty fields fails with the error of the first faulty field in that    *)
(* order, a record without a faulty field is Ok, and a failed decoding     *)
(* returns the error alone.                                                *)
(***************************************************************************)
\* The fields of a record under chapter c in decoding order:
\* <<line, start, end>>.
FieldOrder(c) ==
    [k \in 1..(num_reactants(c) + num_products(c)) |-> <<0, 5 * k, 5 * k + 5>>]
    \o << <<0, 43, 47>>, <<0, 47, 48>>, <<0, 48, 49>>, <<0, 52, 64>>,
          <<1, 0, 13>>, <<1, 13, 26>>, <<1, 26, 39>>, <<1, 39, 52>>,
          <<2, 0, 13>>, <<2, 13, 26>>, <<2, 26, 39>> >>

\* The field a fault breaks and the error it causes.
FaultField(f) ==
    CASE f = "nuc" -> <<0, 5, 10>>   [] f = "lab" -> <<0, 43, 47>>
      [] f = "res" -> <<0, 47, 48>>  [] f = "rev" -> <<0, 48, 49>>
      [] f = "q"   -> <<0, 52, 64>>  [] f = "p1"  -> <<1, 13, 26>>
      [] f = "p5"  -> <<2, 13, 26>>

FaultKind(f) ==
    CASE f \in {"nuc", "lab", "rev"} -> "StrIndex"
      [] f = "res" -> "UnknownResonance"
      [] f \in {"q", "p1", "p5"} -> "ParseFloat"

\* The error of a field of the call, "" when the field is sound: a field
\* that ends beyond the cut is too short, else it has the error of its fault.
FieldError(fld) ==
    IF fld[3] > arg.cut[fld[1] + 1] THEN "TooShortLine"
    ELSE IF \E f \in arg.faults : FaultField(f) = fld
         THEN FaultKind(CHOOSE f \in arg.faults : FaultField(f) = fld)
    ELSE ""

FaultyFields(order) == {i \in 1..Len(order) : FieldError(order[i]) # ""}

FirstFailure(order, r) ==
    IF FaultyFields(order) = {}
    THEN r[1] = "Ok" /\ Len(r) = 2
    ELSE ErrIs(r, FieldError(order[CHOOSE i \in FaultyFields(order) :
                                      \A j \in FaultyFields(order) : i <= j]))

C24_FirstFailureWins ==
    (Called /\ arg.op = "Set" /\ "faults" \in DOMAIN arg) =>
       FirstFailure(FieldOrder(arg.chapter), result[1])

\* An unknown resonance code on a line 0 that is too short for the Q-value,
\* with faults on lines 1 and 2 as well.
C24_Witness ==
    /\ Called /\ arg.op = "Set" /\ "faults" \in DOMAIN arg
    /\ arg.faults = {"res", "p1", "p5"}
    /\ arg.cut = <<60, 30, 20>>
    /\ ErrIs(result[1], "UnknownResonance")

(***************************************************************************)
(* C25: in dialect 2 a call that finds 4 lines reads exactly those 4       *)
(* lines, whatever it returns.  When the 4 lines were read without a read  *)
(* error, the first is parsed as the chapter code: if that fails the call  *)
(* returns its error (ParseInt or UnknownChapter), also when the data      *)
(* lines are faulty, and else the call returns the decoding of the 3 data  *)
(* lines under that chapter.  The chapter field of the iterator stays      *)
(* None.                                                                   *)
(***************************************************************************)
C25_StatelessV2 ==
    format = "Reaclib2" =>
       /\ chapter = <<>>
       /\ Pulled =>
             /\ prev.pos + 4 <= Len(input) => Read = 4
             /\ (Read = 4 /\ AllText(LastGroup)) =>
                   IF LastGroup[1] \in GoodHeaderIds
                   THEN ItemEq(LastItem,
                               Set_from_lines(HeaderChapter(LastGroup[1]), DataLines))
                   ELSE IF LastGroup[1] \in IntegerIds
                        THEN IsUnknownChapter(LastItem, 12)
                        ELSE IsParseInt(LastItem)

\* A record of chapter 7, a group whose header line and resonance code are
\* both invalid, and a record of chapter 1.
C25_Witness ==
    /\ format = "Reaclib2"
    /\ input = <<"h7", "d0", "d1", "d2", "hx", "d0r", "d1", "d2",
                 "h1", "d0", "d1", "d2">>
    /\ Len(items) = 3
    /\ items[1][1] = "Ok" /\ Len(items[1][2].products) = 4
    /\ IsParseInt(items[2])
    /\ items[3][1] = "Ok" /\ Len(items[3][2].products) = 1
    /\ chapter = <<>>

(***************************************************************************)
(* The record decoder on the nuclide columns.  Line 0 is d0 with its six   *)
(* 5-byte columns at offsets 5..35 filled, column k with the k-th name of  *)
(* NuclideNames right-justified or left-justified, with a name of 5 bytes, *)
(* or with spaces; lines 1 and 2 are d1 and d2.  Every chapter is decoded. *)
(***************************************************************************)

NuclideNames ==
    << <<"n">>, <<"p">>, <<"d">>, <<"t">>, <<"h", "e", "3">>, <<"h", "e", "4">> >>

ColumnForms == {"right", "left", "full", "blank"}

\* The 5 bytes of column k (0..5) in the given form.
ColumnBytes(k, form) ==
    CASE form = "right" -> RJust(NuclideNames[k + 1], 5)
      [] form = "left"  -> RPad(NuclideNames[k + 1], 5)
      [] form = "full"  -> <<"n", "u", "c", "l", DigitChars[k + 1]>>
      [] form = "blank" -> Spaces(5)

NuclideLine(forms) ==
    [i \in 1..74 |->
        IF i - 1 \in 5..34
        THEN ColumnBytes((i - 6) \div 5, forms[((i - 6) \div 5) + 1])[((i - 6) % 5) + 1]
        ELSE d0[i]]

NuclideCalls(chapters) ==
    { [op |-> "Set", forms |-> fs, chapter |-> c,
       lines |-> <<NuclideLine(fs), d1, d2>>] :
        fs \in [1..6 -> ColumnForms], c \in chapters }

InitNuclides ==
    /\ format = "Reaclib1"
    /\ input = <<>>
    /\ pos = 0
    /\ chapter = <<>>
    /\ items = <<>>
    /\ prev = [pos |-> 0, chapter |-> <<>>]
    /\ arg \in NuclideCalls(Chapters)
    /\ result = <<>>

NextNuclides == Call_Set_from_lines

SpecNuclides == InitNuclides /\ [][NextNuclides]_vars

(***************************************************************************)
(* C26: for a chapter with r reactants and p products, participant k       *)
(* (k = 0..r+p-1) is the trimmed text of bytes 5+5k..10+5k of data line 0; *)
(* the reactants are participants 0..r-1 in order and the products are     *)
(* participants r..r+p-1 in order.  The last nuclide column ends at or     *)
(* before byte 35, so no nuclide column overlaps the label at 43..47, and  *)
(* the label, resonance, reverse flag and Q-value are those of d0 whatever *)
(* the nuclide columns hold.                                               *)
(***************************************************************************)
ChapterIndex(c) == CHOOSE i \in 1..11 : ChapterNames[i] = c

\* Participant k of the line: the text of its column without the padding.
Participant(line, k) == Trimmed(SubSeq(line, 5 + 5 * k + 1, 10 + 5 * k))

NuclideLayout(line, r, p, res) ==
    /\ res[1] = "Ok"
    /\ Len(res[2].reactants) = r
    /\ Len(res[2].products) = p
    /\ \A k \in 0..(r - 1) : res[2].reactants[k + 1] = Participant(line, k)
    /\ \A k \in r..(r + p - 1) : res[2].products[k - r + 1] = Participant(line, k)
    /\ 10 + 5 * (r + p - 1) <= 43
    /\ res[2].label = LabelText
    /\ res[2].resonance = "Weak"
    /\ res[2].reverse = FALSE
    /\ res[2].q_value = parse_f64(QText)[2]

C26_NuclideColumns ==
    (Called /\ arg.op = "Set" /\ "forms" \in DOMAIN arg) =>
       NuclideLayout(arg.lines[1],
                     ShapeTable[ChapterIndex(arg.chapter)][1],
                     ShapeTable[ChapterIndex(arg.chapter)][2],
                     result[1])

\* Chapter 10 (4 reactants, 2 products) with adjacent 5-byte names in the
\* columns 3 and 4: the fourth reactant and the first product.
C26_Witness ==
    /\ Called /\ arg.op = "Set" /\ "forms" \in DOMAIN arg
    /\ arg.chapter = "Chapter10"
    /\ arg.forms = <<"right", "left", "blank", "full", "full", "right">>
    /\ result[1][1] = "Ok"
    /\ result[1][2].reactants = << <<"n">>, <<"p">>, <<>>, <<"n", "u", "c", "l", "3">> >>
    /\ result[1][2].products = << <<"n", "u", "c", "l", "4">>, <<"h", "e", "4">> >>

(***************************************************************************)
(* The record decoder on the reverse-flag column.  Line 0 is d0 with the   *)
(* resonance column (byte 47) set to arg.res and the reverse column (byte  *)
(* 48) set to arg.rev; "MB" and "WS" stand for a two-byte character and a  *)
(* two-byte whitespace character that begin at byte 48.                    *)
(***************************************************************************)

ReverseFlags == {" ", "\t", "v", "V", "r", "n", "w", "x", "0", "MB", "WS"}

ReverseLine(res, rev) ==
    LET l == [d0 EXCEPT ![48] = res]
    IN  CASE rev = "MB" -> WithChar(l, 48, "MB1", "MB2")
          [] rev = "WS" -> WithChar(l, 48, "WS1", "WS2")
          [] OTHER -> [l EXCEPT ![49] = rev]

ReverseCalls ==
    { [op |-> "Set", res |-> res, rev |-> rev, chapter |-> c,
       lines |-> <<ReverseLine(res, rev), d1, d2>>] :
        res \in {" ", "n", "r", "w", "s"}, rev \in ReverseFlags, c \in Chapters }

InitReverse ==
    /\ format = "Reaclib1"
    /\ input = <<>>
    /\ pos = 0
    /\ chapter = <<>>
    /\ items = <<>>
    /\ prev = [pos |-> 0, chapter |-> <<>>]
    /\ arg \in ReverseCalls
    /\ result = <<>>

NextReverse == Call_Set_from_lines

SpecReverse == InitReverse /\ [][NextReverse]_vars

(***************************************************************************)
(* C27: the reverse field of the record is TRUE exactly when byte 48 of    *)
(* data line 0 is "v"; every other one-byte character there (blank, tab,   *)
(* "V", other letters, digits) gives FALSE without an error.  A character  *)
(* of more than one byte that begins at byte 48 makes the record fail with *)
(* StrIndex.                                                               *)
(***************************************************************************)
ReverseCase == Called /\ arg.op = "Set" /\ "rev" \in DOMAIN arg

C27_ReverseFlag ==
    ReverseCase =>
       IF arg.rev \in {"MB", "WS"}
       THEN ErrIs(result[1], "StrIndex")
       ELSE /\ result[1][1] = "Ok"
            /\ result[1][2].reverse = (arg.rev = "v")

C27_Witness ==
    /\ ReverseCase
    /\ arg.rev = "v" /\ arg.res = "n" /\ arg.chapter = "Chapter7"
    /\ result[1][1] = "Ok"
    /\ result[1][2].reverse = TRUE
    /\ result[1][2].resonance = "NonResonant"

\* C27 as stated: whatever character the column holds, the record is decoded
\* and reverse is TRUE exactly for "v".
C27_NeverAnError ==
    ReverseCase =>
       /\ result[1][1] = "Ok"
       /\ result[1][2].reverse = (arg.rev = "v")

(***************************************************************************)
(* C28: on a finite input every call of next returns after reading a       *)
(* bounded number of lines, and the calls reach None.  A call starts on a  *)
(* group boundary (a multiple of 3 lines in dialect 1, of 4 in dialect 2,  *)
(* from the start of the input, errors or not) and leaves the iterator on  *)
(* a group boundary or at the end of the input; in dialect 1 it reads 3    *)
(* lines for every header it skips and 3 for the group it returns, in      *)
(* dialect 2 it reads 4.  A call that returns an item has read at least    *)
(* one line, a call made before the end of the input returns an item, at   *)
(* most ceil(n / group size) calls return an item on an input of n lines,  *)
(* and after a None every later call returns None without reading.         *)
(***************************************************************************)
CeilDiv(n, d) == (n + d - 1) \div d

Aligned(p) == p % GroupSize = 0

C28_TerminationAlignment ==
    /\ pos <= Len(input)
    /\ Aligned(pos) \/ pos = Len(input)
    /\ Pulled =>
          /\ prev.pos <= pos
          /\ Read > 0 => Aligned(prev.pos)
          /\ (LastItem # NoneItem) => Read > 0
          /\ pos < Len(input) => (Read > 0 /\ LastItem # NoneItem)
          /\ format = "Reaclib1" =>
                Read <= 3 * (Cardinality(HeadersRead) + 1)
          /\ format = "Reaclib2" => Read <= 4
    /\ Cardinality(Emitted) <= CeilDiv(Len(input), GroupSize)
    /\ \A i \in 1..Len(items) : \A j \in i..Len(items) :
          items[i] = NoneItem => (items[j] = NoneItem /\ (j = Len(items) => pos = Len(input)))

\* Dialect 1, 7 lines without a header: two groups refused with
\* ChapterUnset and a cut group give ceil(7/3) = 3 items, then None twice.
C28_Witness ==
    /\ format = "Reaclib1"
    /\ input = <<"d0r", "d1", "d2", "d0", "d1", "d2", "d1">>
    /\ Len(items) = 5
    /\ IsChapterUnset(items[1]) /\ IsChapterUnset(items[2])
    /\ IsTooFewLines(items[3])
    /\ items[4] = NoneItem /\ items[5] = NoneItem
    /\ pos = 7
====
